---- MODULE Spec2Model ----
(***************************************************************************)
(* tinyrpc: one client (call multiplexer with its receive loop) and one    *)
(* server connection (serve loop, per-request handlers with HandleTimeout) *)
(* joined by the two directions of one byte stream.  A stream is the       *)
(* sequence of gob values on it: a Header value, then a Body value, per    *)
(* frame.                                                                  *)
(***************************************************************************)
EXTENDS Integers, Sequences, FiniteSets, TLC

\* ------------------------------------------------------------------ bounds
\* caller tasks that issue Go/Call on the client
MaxCalls == 2
\* times Client.Close may close the codec
MaxCloses == 2

\* ------------------------------------------------------- program constants
\* newClientCodec: seq starts at 1, 0 is the invalid call
FirstSeq == 1
\* the zero value of Call.Seq and of a missing map entry (nil *Call)
Nil == 0

ErrShutdown == "connection is shut down"
ErrNonPointer == "gob: attempt to decode into a non-pointer"
ErrRead == "read error"
ErrWrite == "write error"
ErrCtx == "rpc client: call failed: context canceled"
NoError == ""

Calls == 1..MaxCalls
\* Option.HandleTimeout: 0 (no timeout) or a positive duration
HandleTimeouts == {0, 1}
\* const MagicNumber = 0x3bef5c
MagicNumber == 3927900
GobType == "application/gob"
JsonType == "application/json"
\* codec.NewCodecFuncMap after init(): only GobType has a factory
NewCodecFuncMap == [t \in {GobType} |-> "NewGobCodec"]
\* DefaultOption with a HandleTimeout
OptionWith(timeout) ==
    [MagicNumber |-> MagicNumber, CodecType |-> GobType, HandleTimeout |-> timeout]
\* var opt Option
ZeroOption == [MagicNumber |-> 0, CodecType |-> "", HandleTimeout |-> 0]
\* the holders of a mutex: nobody, or the task inside it
NoTask == <<>>
Sender(c) == <<"send", c>>

VARIABLES
    seq,        \* Client.seq
    pending,    \* Client.pending : Seq -> call
    closing,    \* Client.closing
    shutdown,   \* Client.shutdown
    sending,    \* holder of Client.sending
    call,       \* the Call objects: ServiceMethod, Args, Reply, Seq, Error, Done
    task,       \* the caller task of each call: pc, ctx, ret
    recv,       \* the receive loop: pc, h, call, err
    closeRet,   \* the value returned by the latest Client.Close()
    codecCloses,\* how many times Client.Close closed the codec
    conn,       \* the connection: client end, server end, network
    c2s,        \* gob values in flight client -> server
    s2c,        \* gob values in flight server -> client
    srv,        \* the serve loop of the connection: pc, h
    reqs,       \* the requests handed to handleRequest, in the order read
    srvSending, \* holder of serveCodec's sending mutex
    srvBuf,     \* gob values encoded into the codec's writer, not yet flushed
    wg,         \* serveCodec's WaitGroup counter
    written,    \* the frames the server handed to cc.Write, oldest first
    opt,        \* the Option of the connection (HandleTimeout)
    rawSent,    \* request frames written by the peer of the server
    serviceMap, \* Server.serviceMap : service name -> service
    register,   \* the callers of Server.Register: pc, s, ret
    now,        \* the clock (time.Now()), in whole time units
    registry,   \* the TinyRegistry: timeout, servers : addr -> start
    http,       \* the answers of the registry's ServeHTTP, oldest first
    hb,         \* the Heartbeat of one server: pc, duration, err, posts, next
    disc,       \* the MultiServerDiscovery: servers, index, and its Gets
    rd,         \* the TinyRegistryDiscory: timeout, lastUpdate, Refresh, Get
    bc,         \* one XClient.Broadcaset: servers, tasks, e, ctx, reply, ret
    dial,       \* one dialTimeout: options, connection, handshake task, result
    lk,         \* the client's two mutexes: holders and each task's position
    xc          \* one XClient: its mutex, its client cache, the clients it dialled

clientVars == <<seq, pending, closing, shutdown, sending, call, task,
                recv, closeRet, codecCloses>>
serverVars == <<srv, reqs, srvSending, srvBuf, wg, written, opt, rawSent>>
wireVars == <<conn, c2s, s2c>>
\* the server's registration, the registry, the discovery and the XClient
libVars == <<serviceMap, register, now, registry, http, hb, disc, rd, bc, dial, lk, xc>>

vars == <<clientVars, serverVars, wireVars, libVars>>
\* one connection with its client and its server
coreVars == <<clientVars, serverVars, wireVars>>

clientState == <<seq, pending, closing, shutdown>>

\* ------------------------------------------------------------ wire values
HeaderItem(sm, s, e) == [k |-> "H", ServiceMethod |-> sm, Seq |-> s, Error |-> e]
BodyItem(v) == [k |-> "B", v |-> v]
\* invalidRequest = struct{}{}
invalidRequest == "struct{}{}"

\* main.go: Args{Num1: i, Num2: i * i}
ArgsOf(c) == [Num1 |-> c, Num2 |-> c * c]
\* Foo.Sum: *reply = args.Num1 + args.Num2
Sum(args) == args.Num1 + args.Num2

FooSum == <<"F", "o", "o", ".", "S", "u", "m">>

\* --------------------------------------------------------- connection
connDeadForClient == conn.client = "closed" \/ conn.net = "down"
connDeadForServer == conn.server = "closed" \/ conn.net = "down"

\* GobCodec.Close on the client: conn.Close(); closing a connection the
\* client already finds dead changes nothing it can observe
codecClose(cn) == IF cn.client = "closed" \/ cn.net = "down" THEN cn
                  ELSE [cn EXCEPT !.client = "closed"]

\* ------------------------------------------------------ pending map
pendingGet(p, s) == IF s \in DOMAIN p THEN p[s] ELSE Nil
pendingPut(p, s, c) == [x \in DOMAIN p \cup {s} |-> IF x = s THEN c ELSE p[x]]
\* a delete that leaves the entry in place
pendingKeep(p, s) == p
pendingDelete(p, s) == [x \in DOMAIN p \ {s} |-> p[x]]
pendingCalls(p) == {p[x] : x \in DOMAIN p}
\* a lookup that ignores seq and takes the oldest pending call
removeOldest(p, s) ==
    IF DOMAIN p = {} THEN Nil
    ELSE p[CHOOSE x \in DOMAIN p : \A y \in DOMAIN p : x <= y]
\* removeCall(seq): the call stored under seq, or nil (the entry is deleted)
removeCall(p, s) == pendingGet(p, s)

\* a check that forgets closing
refusedOnShutdownOnly(cl, sh) == sh
\* registerCall's check: closing || shutdown
registerRefused(cl, sh) == cl \/ sh
\* a seq that is never advanced
seqKeep(s) == s
\* client.seq++
seqIncrement(s) == s + 1

\* call.Error = err ; call.done()
failCall(cs, c, e) == [cs EXCEPT ![c].Error = e, ![c].Done = @ + 1]
\* call.done()
doneCall(cs, c) == [cs EXCEPT ![c].Done = @ + 1]


\* ============================================================ Register
Foo == <<"F", "o", "o">>
Bar == <<"B", "a", "r">>
\* the exported methods reflection finds on a receiver type: Foo has Sum
\* and Sleep (main.go)
registerMethods(typ) ==
    IF typ = Foo THEN {<<"S", "u", "m">>, <<"S", "l", "e", "e", "p">>}
    ELSE {<<"S", "u", "m">>}
\* newService(rcvr): name is the receiver's type name
newService(rcvr) ==
    [name |-> rcvr.typ, rcvr |-> rcvr.id, method |-> registerMethods(rcvr.typ)]
\* startServer: var foo Foo ; Register(&foo)
mainServices == [n \in {Foo} |-> newService([id |-> 0, typ |-> Foo])]

\* concurrent callers of Server.Register
MaxRegs == 3
Regs == 1..MaxRegs
ErrDup == "rpc: service already defined"

\* a Store in place of LoadOrStore: never finds the name
neverLoaded(m, name) == FALSE
\* sync.Map.LoadOrStore: loaded reports whether the key was present
loaded(m, name) == name \in DOMAIN m
\* sync.Map.LoadOrStore: the map afterwards
loadOrStore(m, name, s) ==
    IF loaded(m, name) THEN m
    ELSE [x \in DOMAIN m \cup {name} |-> IF x = name THEN s ELSE m[x]]

InitRegTask == [pc |-> "idle", s |-> Nil, ret |-> "none"]
registerInit ==
    /\ serviceMap = mainServices
    /\ register = [t \in Regs |-> InitRegTask]

\* Register(rcvr): s := newService(rcvr)
Register_newService(t, typ) ==
    /\ register[t].pc = "idle"
    /\ register' = [register EXCEPT ![t].pc = "store",
                                    ![t].s = newService([id |-> t, typ |-> typ])]
    /\ UNCHANGED <<coreVars, serviceMap, now, registry, http, hb, disc, rd, bc, dial, lk, xc>>

\* Register: serviceMap.LoadOrStore(s.name, s); dup -> error
Register_LoadOrStore(t) ==
    /\ register[t].pc = "store"
    /\ serviceMap' = loadOrStore(serviceMap, register[t].s.name, register[t].s)
    /\ register' = [register EXCEPT ![t].pc = "done",
                      ![t].ret = IF loaded(serviceMap, register[t].s.name)
                                 THEN ErrDup ELSE NoError]
    /\ UNCHANGED <<coreVars, now, registry, http, hb, disc, rd, bc, dial, lk, xc>>

\* ============================================================ registry
\* Time is counted in whole units (minutes); defaultTimeout = 5 minutes.
defaultTimeout == 5
\* how far the clock runs
MaxTime == 6
\* the timeouts a registry is built with
RegistryTimeouts == {0, 2, defaultTimeout}

\* addresses are strings, here tuples of letters numbered in alphabetical
\* order: "a", "ab" and "b", and "" for a missing X-Tinyrpc-Server header
AddrA == <<1>>
AddrAB == <<1, 2>>
AddrB == <<2>>
Addrs == {AddrA, AddrAB, AddrB}
NoAddr == <<>>

\* string comparison, as sort.Strings orders: a < b
RECURSIVE Less(_, _)
Less(a, b) ==
    IF b = <<>> THEN FALSE
    ELSE IF a = <<>> THEN TRUE
    ELSE IF Head(a) # Head(b) THEN Head(a) < Head(b)
    ELSE Less(Tail(a), Tail(b))

\* sort.Strings of the addresses collected from the map, whose iteration
\* order is arbitrary: insertion of each into place
RECURSIVE sortStrings(_)
sortStrings(set) ==
    IF set = {} THEN <<>>
    ELSE LET least == CHOOSE a \in set : \A b \in set \ {a} : Less(a, b)
         IN  <<least>> \o sortStrings(set \ {least})

\* an entry that is still listed when its age equals the timeout
aliveInclusive(timeout, start, t) == timeout = 0 \/ start + timeout >= t
\* aliveServers: r.timeout == 0 || s.start.Add(r.timeout).After(time.Now())
alive(timeout, start, t) == timeout = 0 \/ start + timeout > t

\* aliveServers: the addresses kept
aliveAddrs(r, t) == {a \in DOMAIN r.servers : alive(r.timeout, r.servers[a], t)}

\* a putServer that leaves the start of a known address as it is
putIfAbsent(servers, addr, t) ==
    [a \in DOMAIN servers \cup {addr} |-> IF a \in DOMAIN servers THEN servers[a] ELSE t]
\* putServer: insert the address or reset its start to time.Now()
putServer(servers, addr, t) ==
    [a \in DOMAIN servers \cup {addr} |-> IF a = addr THEN t ELSE servers[a]]

\* New(timeout)
NewRegistry(timeout) == [timeout |-> timeout, servers |-> <<>>]
NoResponse == [method |-> "", addr |-> NoAddr, status |-> 0, servers |-> <<>>, at |-> 0]
Response(method, addr, status, servers) ==
    [method |-> method, addr |-> addr, status |-> status, servers |-> servers, at |-> now]

registryInit ==
    /\ now = 0
    /\ registry = NewRegistry(defaultTimeout)
    /\ http = NoResponse

\* ServeHTTP, case "POST": 500 on an empty address, else putServer
servePOST(addr) ==
    IF addr = NoAddr
    THEN /\ http' = Response("POST", addr, 500, <<>>)
         /\ UNCHANGED registry
    ELSE /\ http' = Response("POST", addr, 200, <<>>)
         /\ registry' = [registry EXCEPT !.servers = putServer(@, addr, now)]

\* a POST from some server
ServeHTTP_POST(addr) ==
    /\ servePOST(addr)
    /\ UNCHANGED <<coreVars, serviceMap, register, now, hb, disc, rd, bc, dial, lk, xc>>

\* ServeHTTP, case "GET": X-Tinyrpc-Servers = the sorted alive servers;
\* aliveServers deletes the others
ServeHTTP_GET ==
    /\ http' = Response("GET", NoAddr, 200, sortStrings(aliveAddrs(registry, now)))
    /\ registry' = [registry EXCEPT
                      !.servers = [a \in aliveAddrs(registry, now) |-> registry.servers[a]]]
    /\ UNCHANGED <<coreVars, serviceMap, register, now, hb, disc, rd, bc, dial, lk, xc>>

\* ServeHTTP, default: 405
ServeHTTP_other ==
    /\ http' = Response("PUT", NoAddr, 405, <<>>)
    /\ UNCHANGED <<coreVars, serviceMap, register, now, registry, hb, disc, rd, bc, dial, lk, xc>>

\* ----------------------------------------------------------- Heartbeat
ErrPost == "Post: connection refused"
\* Heartbeat: duration == 0 is replaced by defaultTimeout - 1 minute
heartbeatDuration(d) == IF d = 0 THEN defaultTimeout - 1 ELSE d
\* a loop that does not look at err
loopAlways(err) == TRUE
\* Heartbeat's loop condition: for err == nil
loopContinues(err) == err = NoError

InitHb == [pc |-> "idle", addr |-> NoAddr, given |-> 0, duration |-> 0, err |-> NoError,
           posts |-> 0, start |-> 0, next |-> 0]
heartbeatInit == hb = InitHb

\* sendHeartbeat: the POST reaches the registry and Do returns nil, or Do
\* returns an error, with the registry reached or not
sendHeartbeat(addr, err) ==
    \/ /\ err = NoError
       /\ servePOST(addr)
    \/ /\ err # NoError
       /\ \/ servePOST(addr)
          \/ UNCHANGED <<registry, http>>

\* Heartbeat(registry, addr, duration): the first sendHeartbeat, then the
\* goroutine with its ticker
Heartbeat(addr, d) ==
    /\ hb.pc = "idle"
    /\ \E err \in {NoError, ErrPost} :
         /\ sendHeartbeat(addr, err)
         /\ hb' = [pc |-> IF loopContinues(err) THEN "running" ELSE "stopped",
                   addr |-> addr, given |-> d, duration |-> heartbeatDuration(d), err |-> err,
                   posts |-> 1, start |-> now, next |-> now + heartbeatDuration(d)]
    /\ UNCHANGED <<coreVars, serviceMap, register, now, disc, rd, bc, dial, lk, xc>>

\* the goroutine: <-t.C ; err = sendHeartbeat(registry, addr)
Heartbeat_tick ==
    /\ hb.pc = "running"
    /\ now = hb.next
    /\ \E err \in {NoError, ErrPost} :
         /\ sendHeartbeat(hb.addr, err)
         /\ hb' = [hb EXCEPT !.pc = IF loopContinues(err) THEN "running" ELSE "stopped",
                             !.err = err, !.posts = @ + 1, !.next = now + hb.duration]
    /\ UNCHANGED <<coreVars, serviceMap, register, now, disc, rd, bc, dial, lk, xc>>

\* time passes; it does not pass a tick of a running heartbeat, which
\* fires when due
Tick ==
    /\ now < MaxTime
    /\ hb.pc = "running" => now < hb.next
    /\ now' = now + 1
    /\ UNCHANGED <<coreVars, serviceMap, register, registry, http, hb, disc, rd, bc, dial, lk, xc>>

\* ============================================================ discovery
RandomSelect == 0
RoundRobinSelect == 1
\* the modes Get is called with: the two known ones and an unknown one
SelectModes == {RandomSelect, RoundRobinSelect, 2}
ErrNoServers == "rpc discovery: no available severs"
ErrSelectMode == "rpc discovery: not supported select mode"

\* largest value drawn for the initial index (the code draws below MaxInt32 - 1)
MaxIndex == 5
\* number of Get calls followed
MaxGets == 4
\* the lists a discovery is built with or updated to
ServerLists == {<<>>, <<AddrA>>, <<AddrA, AddrAB>>, <<AddrA, AddrAB, AddrB>>, <<AddrB, AddrA>>}
Callers == 1..2

\* a round robin that does not move on
indexKept(index, n) == index
\* Get, RoundRobinSelect: d.index = (d.index + 1) % n
nextIndex(index, n) == (index + 1) % n
\* Get, RoundRobinSelect: d.servers[d.index%n], slices being 0-based
selected(servers, index) == servers[(index % Len(servers)) + 1]

NoGet == [caller |-> 0, mode |-> RandomSelect, s |-> NoAddr, err |-> NoError]
\* NewMultiServerDiscovery(servers), the random index being i; got, from
\* and gets record the RoundRobinSelect results since the last Update, the
\* index at that Update, and the number of Gets
NewMultiServerDiscovery(servers, i) ==
    [servers |-> servers, index |-> i, got |-> <<>>, from |-> i, gets |-> 0, ret |-> NoGet]

discInit == disc = NewMultiServerDiscovery(<<>>, 0)

\* MultiServerDiscovery.Update, under d.mu
Discovery_Update(servers) ==
    /\ disc' = [disc EXCEPT !.servers = servers, !.got = <<>>, !.from = disc.index]
    /\ UNCHANGED <<coreVars, serviceMap, register, now, registry, http, hb, rd, bc, dial, lk, xc>>

\* MultiServerDiscovery.Get(mode), under d.mu
multiGet(caller, mode) ==
    /\ disc.gets < MaxGets
    /\ LET n == Len(disc.servers)
           answer(s, err) == [caller |-> caller, mode |-> mode, s |-> s, err |-> err]
       IN  IF n = 0
           THEN disc' = [disc EXCEPT !.gets = @ + 1, !.ret = answer(NoAddr, ErrNoServers)]
           ELSE IF mode = RandomSelect
           THEN \E k \in 0..(n - 1) :
                   disc' = [disc EXCEPT !.gets = @ + 1,
                                        !.ret = answer(disc.servers[k + 1], NoError)]
           ELSE IF mode = RoundRobinSelect
           THEN disc' = [disc EXCEPT !.gets = @ + 1,
                                     !.ret = answer(selected(disc.servers, disc.index), NoError),
                                     !.got = Append(@, selected(disc.servers, disc.index)),
                                     !.index = nextIndex(disc.index, n)]
           ELSE disc' = [disc EXCEPT !.gets = @ + 1, !.ret = answer(NoAddr, ErrSelectMode)]

\* a call of Get on a MultiServerDiscovery
Discovery_Get(caller, mode) ==
    /\ multiGet(caller, mode)
    /\ UNCHANGED <<coreVars, serviceMap, register, now, registry, http, hb, rd, bc, dial, lk, xc>>

\* ------------------------------------------------ registry discovery
\* time here is counted in seconds
defaultUpdateTimeout == 10
\* how far the clock runs for the registry discovery
MaxClock == 6
\* the zero time.Time, long before the clock starts
ZeroTime == -1000
\* characters of the X-Tinyrpc-Servers header besides the letters 1, 2
Comma == 0
Space == 3
ErrGet == "Get: connection refused"

\* strings.Join(list, ",")
RECURSIVE join(_)
join(list) ==
    IF list = <<>> THEN <<>>
    ELSE IF Len(list) = 1 THEN list[1]
    ELSE list[1] \o <<Comma>> \o join(Tail(list))

\* strings.Split(str, ","): the pieces between the commas, empty ones kept
RECURSIVE split(_)
split(str) ==
    IF \A i \in 1..Len(str) : str[i] # Comma THEN <<str>>
    ELSE LET k == CHOOSE i \in 1..Len(str) :
                     str[i] = Comma /\ \A j \in 1..(i - 1) : str[j] # Comma
         IN  <<SubSeq(str, 1, k - 1)>> \o split(SubSeq(str, k + 1, Len(str)))

\* a TrimSpace that trims nothing
noTrim(str) == str
\* strings.TrimSpace
RECURSIVE TrimSpace(_)
TrimSpace(str) ==
    IF str = <<>> THEN str
    ELSE IF Head(str) = Space THEN TrimSpace(Tail(str))
    ELSE IF str[Len(str)] = Space THEN TrimSpace(SubSeq(str, 1, Len(str) - 1))
    ELSE str

\* Refresh: the trimmed non-empty entries of the header, in order
RECURSIVE trimmedEntries(_)
trimmedEntries(parts) ==
    IF parts = <<>> THEN <<>>
    ELSE IF TrimSpace(Head(parts)) # <<>>
         THEN <<TrimSpace(Head(parts))>> \o trimmedEntries(Tail(parts))
         ELSE trimmedEntries(Tail(parts))

\* the headers a registry answers: lists joined, and " a,, b " and " "
Headers ==
    {join(l) : l \in {<<>>, <<AddrA, AddrAB, AddrB>>}}
        \cup {<<Space, 1, Comma, Comma, Space, 2, Space>>, <<Space>>}

\* a check that takes a list whose age equals the timeout for fresh
freshInclusive(lastUpdate, timeout, t) == lastUpdate + timeout >= t
\* Refresh: d.lastUpdate.Add(d.timeout).After(time.Now())
fresh(lastUpdate, timeout, t) == lastUpdate + timeout > t

\* a Refresh that goes on after a failed http.Get
errIgnored(err) == FALSE
\* Refresh: if err != nil { return err }
getFailed(err) == err # NoError

NoRefresh == [flip |-> FALSE, requested |-> FALSE, header |-> <<>>, err |-> NoError]
IdleCall == [pc |-> "idle", op |-> "", mode |-> RandomSelect, at |-> ZeroTime,
             list |-> <<>>, err |-> NoError]
\* NewTinyRegistryDiscovery(registerAddr, timeout); refresh is the last
\* Refresh made (flip changes at each one), call the Get or GetAll under way
NewTinyRegistryDiscovery(timeout) ==
    [timeout |-> IF timeout = 0 THEN defaultUpdateTimeout ELSE timeout,
     lastUpdate |-> ZeroTime, refresh |-> NoRefresh, call |-> IdleCall]

rdInit == rd = NewTinyRegistryDiscovery(0)

\* the body of TinyRegistryDiscory.Refresh, under d.mu: err and header are
\* what http.Get gives when it is called; the result is the new lastUpdate
\* and servers, and the record of this Refresh
refresh(err, header) ==
    IF fresh(rd.lastUpdate, rd.timeout, now)
    THEN [lastUpdate |-> rd.lastUpdate, servers |-> disc.servers,
          refresh |-> [flip |-> ~rd.refresh.flip, requested |-> FALSE,
                       header |-> <<>>, err |-> NoError]]
    ELSE IF getFailed(err)
    THEN [lastUpdate |-> rd.lastUpdate, servers |-> disc.servers,
          refresh |-> [flip |-> ~rd.refresh.flip, requested |-> TRUE,
                       header |-> <<>>, err |-> err]]
    ELSE [lastUpdate |-> now, servers |-> trimmedEntries(split(header)),
          refresh |-> [flip |-> ~rd.refresh.flip, requested |-> TRUE,
                       header |-> header, err |-> err]]

\* d.servers = servers on the embedded MultiServerDiscovery: the index stays,
\* the record of round-robin results starts again
setServers(servers) ==
    IF servers = disc.servers THEN disc
    ELSE [disc EXCEPT !.servers = servers, !.got = <<>>, !.from = disc.index]

\* what http.Get may give: an error, or a response with a header
GetOutcomes == {<<ErrGet, <<>>>>} \cup {<<NoError, h>> : h \in Headers}

\* a call of Refresh
Rd_Refresh ==
    /\ \E o \in GetOutcomes :
          LET r == refresh(o[1], o[2])
          IN  /\ rd' = [rd EXCEPT !.lastUpdate = r.lastUpdate, !.refresh = r.refresh]
              /\ disc' = setServers(r.servers)
    /\ UNCHANGED <<coreVars, serviceMap, register, now, registry, http, hb, bc, dial, lk, xc>>

\* TinyRegistryDiscory.Update, under d.mu
Rd_Update(servers) ==
    /\ disc' = setServers(servers)
    /\ rd' = [rd EXCEPT !.lastUpdate = now]
    /\ UNCHANGED <<coreVars, serviceMap, register, now, registry, http, hb, bc, dial, lk, xc>>

\* TinyRegistryDiscory.Get(mode) and GetAll, first half: d.Refresh(), and
\* the return of its error
Rd_Call(op, mode) ==
    /\ rd.call.pc # "refreshed"
    /\ \E o \in GetOutcomes :
          LET r == refresh(o[1], o[2])
          IN  /\ rd' = [rd EXCEPT
                          !.lastUpdate = r.lastUpdate,
                          !.refresh = r.refresh,
                          !.call = IF r.refresh.err # NoError
                                   THEN [IdleCall EXCEPT !.pc = "done", !.op = op, !.mode = mode,
                                                         !.err = r.refresh.err]
                                   ELSE [IdleCall EXCEPT !.pc = "refreshed", !.op = op,
                                                         !.mode = mode, !.at = now]]
              /\ disc' = setServers(r.servers)
    /\ UNCHANGED <<coreVars, serviceMap, register, now, registry, http, hb, bc, dial, lk, xc>>

\* Get, second half: return d.MultiServerDiscovery.Get(mode), whose result
\* is disc.ret
Rd_Get ==
    /\ rd.call.pc = "refreshed"
    /\ rd.call.op = "Get"
    /\ multiGet(1, rd.call.mode)
    /\ rd' = [rd EXCEPT !.call.pc = "done", !.call.at = ZeroTime]
    /\ UNCHANGED <<coreVars, serviceMap, register, now, registry, http, hb, bc, dial, lk, xc>>

\* GetAll, second half: return d.MultiServerDiscovery.GetAll(), a copy
Rd_GetAll ==
    /\ rd.call.pc = "refreshed"
    /\ rd.call.op = "GetAll"
    /\ rd' = [rd EXCEPT !.call.pc = "done", !.call.at = ZeroTime,
                        !.call.list = disc.servers]
    /\ UNCHANGED <<coreVars, serviceMap, register, now, registry, http, hb, disc, bc, dial, lk, xc>>

\* time passes
Rd_Tick ==
    /\ now < MaxClock
    /\ now' = now + 1
    /\ UNCHANGED <<coreVars, serviceMap, register, registry, http, hb, disc, rd, bc, dial, lk, xc>>



\* ============================================================ Broadcaset
\* largest number of servers GetAll returns
MaxServers == 3
\* the list GetAll returns: n addresses "a", "b", "c", ...
bcServers(n) == [i \in 1..n |-> <<i>>]
\* the error of the call to the i-th server
callError(i) == IF i = 1 THEN "call 1 failed" ELSE IF i = 2 THEN "call 2 failed"
                ELSE IF i = 3 THEN "call 3 failed" ELSE "call failed"

\* a record that lets a later error replace an earlier one
lastError(e, err) == IF err # NoError THEN err ELSE e
\* Broadcaset, under mu: if err != nil && e == nil { e = err; cancel() }
firstError(e, err) == IF err # NoError /\ e = NoError THEN err ELSE e

\* the reply the i-th server sends; 0 is the zero value of the reply type
replyValue(i) == i
\* a record that sets the caller's reply at every success
replySetAlways(err, replyDone) == err = NoError
\* Broadcaset, under mu: if err == nil && !replyDone { set reply }
replySet(err, replyDone) == err = NoError /\ ~replyDone

\* replyNil: the caller passed reply == nil; reply and writes: the caller's
\* reply and the number of times it was set; errs, oks: the errors and the
\* successful tasks in the order they took mu
InitBc == [pc |-> "idle", servers |-> <<>>, task |-> <<>>, e |-> NoError,
           cancelled |-> FALSE, replyNil |-> FALSE, replyDone |-> FALSE, reply |-> 0,
           writes |-> 0, errs |-> <<>>, oks |-> <<>>, ret |-> NoError]
bcInit == bc = InitBc

\* Broadcaset up to the goroutines: servers, err := xc.d.GetAll(), here n
\* servers or the error; replyDone := reply == nil; one task per server
Broadcaset(n, getAllErr, replyNil) ==
    /\ bc.pc = "idle"
    /\ bc' = IF getAllErr # NoError
             THEN [InitBc EXCEPT !.pc = "returned", !.ret = getAllErr]
             ELSE [InitBc EXCEPT !.pc = "running", !.servers = bcServers(n),
                                 !.task = [i \in 1..n |->
                                             [pc |-> "call", err |-> NoError, clone |-> 0]],
                                 !.replyNil = replyNil,
                                 !.replyDone = replyNil]
    /\ UNCHANGED <<coreVars, serviceMap, register, now, registry, http, hb, disc, rd, dial, lk, xc>>

\* task i: cloneReply is a fresh value of reply's type (nil when reply is
\* nil); err := xc.call(rpcAddr, ctx, ..., cloneReply): success, which
\* decodes the server's reply into the clone, the call's own error (dial or
\* call), or the context error once ctx is cancelled
Broadcaset_call(i) ==
    /\ bc.pc = "running"
    /\ i \in DOMAIN bc.task
    /\ bc.task[i].pc = "call"
    /\ \E err \in {NoError, callError(i)} \cup (IF bc.cancelled THEN {ErrCtx} ELSE {}) :
          bc' = [bc EXCEPT !.task[i] =
                    [pc |-> "record", err |-> err,
                     clone |-> IF err = NoError /\ ~bc.replyNil THEN replyValue(i) ELSE 0]]
    /\ UNCHANGED <<coreVars, serviceMap, register, now, registry, http, hb, disc, rd, dial, lk, xc>>

\* task i, under mu: keep the first error and cancel, set the reply once;
\* then wg.Done()
Broadcaset_record(i) ==
    /\ bc.pc = "running"
    /\ i \in DOMAIN bc.task
    /\ bc.task[i].pc = "record"
    /\ LET err == bc.task[i].err
           e == firstError(bc.e, err)
       IN  bc' = [bc EXCEPT
                    !.task[i].pc = "done",
                    !.e = e,
                    !.cancelled = @ \/ e # bc.e,
                    !.errs = IF err # NoError THEN Append(@, err) ELSE @,
                    !.oks = IF err = NoError THEN Append(@, i) ELSE @,
                    !.reply = IF replySet(err, bc.replyDone) THEN bc.task[i].clone ELSE @,
                    !.writes = IF replySet(err, bc.replyDone) THEN @ + 1 ELSE @,
                    !.replyDone = @ \/ replySet(err, bc.replyDone)]
    /\ UNCHANGED <<coreVars, serviceMap, register, now, registry, http, hb, disc, rd, dial, lk, xc>>

\* wg.Wait(); return e, with the deferred cancel()
Broadcaset_return ==
    /\ bc.pc = "running"
    /\ \A i \in DOMAIN bc.task : bc.task[i].pc = "done"
    /\ bc' = [bc EXCEPT !.pc = "returned", !.ret = bc.e, !.cancelled = TRUE]
    /\ UNCHANGED <<coreVars, serviceMap, register, now, registry, http, hb, disc, rd, dial, lk, xc>>

\* ============================================================ dialTimeout
\* DefaultOption: ConnectTimeout is 10 seconds
DefaultConnectTimeout == 10
DefaultOption ==
    [nil |-> FALSE, MagicNumber |-> MagicNumber, CodecType |-> GobType,
     ConnectTimeout |-> DefaultConnectTimeout, HandleTimeout |-> 0]
\* a nil *Option
NilOption == [nil |-> TRUE]
\* the options callers pass: nil, the zero Option, one with a wrong magic
\* number, no connect timeout and a handle timeout, one with the json codec
OptionPool ==
    {NilOption,
     [nil |-> FALSE, MagicNumber |-> 0, CodecType |-> "", ConnectTimeout |-> 0,
      HandleTimeout |-> 0],
     [nil |-> FALSE, MagicNumber |-> 1, CodecType |-> GobType, ConnectTimeout |-> 0,
      HandleTimeout |-> 1],
     [nil |-> FALSE, MagicNumber |-> MagicNumber, CodecType |-> JsonType,
      ConnectTimeout |-> 1, HandleTimeout |-> 0],
     [nil |-> FALSE, MagicNumber |-> MagicNumber, CodecType |-> "", ConnectTimeout |-> 1,
      HandleTimeout |-> 1]}
\* longest argument list opts ...*Option
MaxOpts == 2
OptionLists == UNION {[1..n -> OptionPool] : n \in 0..MaxOpts}

ErrOptions == "number of options is more than 1"
ErrDial == "dial tcp: connection refused"
ErrCodec == "invalid codec type"
ErrConnectTimeout == "rpc client: connect timeout"
ErrEOF == "unexpected EOF"
ErrMalformedResponse == "malformed HTTP response"
ErrMalformedStatus == "malformed HTTP status code"
ErrMalformedVersion == "malformed HTTP version"
ErrUnexpectedResponse == "unexpected HTTP response"

\* parseOptions(opts ...*Option)
parseOptions(opts) ==
    IF Len(opts) = 0 \/ opts[1].nil
    THEN [opt |-> DefaultOption, err |-> NoError]
    ELSE IF Len(opts) # 1
    THEN [opt |-> NilOption, err |-> ErrOptions]
    ELSE [opt |-> [opts[1] EXCEPT !.MagicNumber = DefaultOption.MagicNumber,
                                  !.CodecType = IF @ = "" THEN DefaultOption.CodecType ELSE @],
          err |-> NoError]

\* ---- the HTTP CONNECT exchange; texts are tuples of characters
connected ==
    <<"2", "0", "0", " ", "C", "o", "n", "n", "e", "c", "t", "e", "d", " ",
      "t", "o", " ", "t", "i", "n", "y", "r", "p", "c">>
http10 == <<"H", "T", "T", "P", "/", "1", ".", "0">>
newline == "\n"
\* what net/http answers for ServeHTTP's 405
response405 ==
    http10 \o <<" ", "4", "0", "5", " ", "M", "e", "t", "h", "o", "d", " ", "N", "o", "t",
                " ", "A", "l", "l", "o", "w", "e", "d", newline, newline>>

\* Server.ServeHTTP: what it makes the connection carry. Not CONNECT: 405;
\* Hijack fails: nothing; else io.WriteString(conn, "HTTP/1.0"+connected+"\n\n")
ServeHTTP(method, hijackOk) ==
    IF method # "CONNECT" THEN response405
    ELSE IF ~hijackOk THEN <<>>
    ELSE http10 \o connected \o <<newline, newline>>

\* the part of text before the first sep, the part after it, and whether
\* sep occurs: strings.Cut
cut(text, sep) ==
    IF \A i \in 1..Len(text) : text[i] # sep
    THEN [before |-> text, after |-> <<>>, found |-> FALSE]
    ELSE LET k == CHOOSE i \in 1..Len(text) :
                     text[i] = sep /\ \A j \in 1..(i - 1) : text[j] # sep
         IN  [before |-> SubSeq(text, 1, k - 1), after |-> SubSeq(text, k + 1, Len(text)),
              found |-> TRUE]

\* strings.TrimLeft(text, " ")
RECURSIVE trimLeft(_)
trimLeft(text) ==
    IF text # <<>> /\ Head(text) = " " THEN trimLeft(Tail(text)) ELSE text

Digits == {"0", "1", "2", "3", "4", "5", "6", "7", "8", "9"}

\* http.ReadResponse on the bytes the server sent: the status line is cut at
\* its first space into protocol and status, the status code is the status
\* up to its first space and must be three digits, the protocol must be an
\* HTTP version
ReadResponse(bytes) ==
    LET line == cut(bytes, newline)
        parts == cut(line.before, " ")
        status == trimLeft(parts.after)
        statusCode == cut(status, " ").before
    IN  IF ~line.found THEN [err |-> ErrEOF, Status |-> <<>>]
        ELSE IF ~parts.found THEN [err |-> ErrMalformedResponse, Status |-> <<>>]
        ELSE IF Len(statusCode) # 3 \/ \E i \in 1..Len(statusCode) : statusCode[i] \notin Digits
        THEN [err |-> ErrMalformedStatus, Status |-> <<>>]
        ELSE IF parts.before \notin {http10, <<"H", "T", "T", "P", "/", "1", ".", "1">>}
        THEN [err |-> ErrMalformedVersion, Status |-> <<>>]
        ELSE [err |-> NoError, Status |-> status]

\* NewClient(conn, opt): codec lookup, json Encode of the option (closing the
\* connection when it fails), newClientCodec; the *Client is 1
NewClient(o, connOpen, writeOk) ==
    IF o.CodecType \notin DOMAIN NewCodecFuncMap
    THEN [client |-> Nil, err |-> ErrCodec, conn |-> IF connOpen THEN "open" ELSE "closed"]
    ELSE IF ~connOpen \/ ~writeOk
    THEN [client |-> Nil, err |-> ErrWrite, conn |-> "closed"]
    ELSE [client |-> 1, err |-> NoError, conn |-> "open"]

\* NewHTTPClient(conn, opt): write the CONNECT request, read the response,
\* require resp.Status == connected, then NewClient
NewHTTPClient(o, connOpen, writeOk, bytes) ==
    LET resp == ReadResponse(IF connOpen THEN bytes ELSE <<>>)
        keep == IF connOpen THEN "open" ELSE "closed"
    IN  IF resp.err = NoError /\ resp.Status = connected
        THEN NewClient(o, connOpen, writeOk)
        ELSE IF resp.err = NoError
        THEN [client |-> Nil, err |-> ErrUnexpectedResponse, conn |-> keep]
        ELSE [client |-> Nil, err |-> resp.err, conn |-> keep]

\* a dialTimeout that leaves the connection open
deferredNone(err, c) == c
\* dialTimeout: defer func() { if err != nil { _ = conn.Close() } }()
deferredClose(err, c) == IF err # NoError THEN "closed" ELSE c

NoResult == [client |-> Nil, err |-> NoError]
InitDial ==
    [pc |-> "idle", kind |-> "", opts |-> <<>>, parsed |-> [opt |-> NilOption, err |-> NoError],
     conn |-> "none", clean |-> TRUE, hs |-> [pc |-> "none", client |-> Nil, err |-> NoError],
     ret |-> NoResult]
dialInit == dial = InitDial

notDial == <<coreVars, serviceMap, register, now, registry, http, hb, disc, rd, bc, lk, xc>>

\* dialTimeout(newClient, network, address, opts...) up to the select: kind
\* is "tcp" for Dial (NewClient) and "http" for DialHTTP (NewHTTPClient)
Dial(kind, opts, dialOk) ==
    /\ dial.pc = "idle"
    /\ LET p == parseOptions(opts)
           d == [InitDial EXCEPT !.kind = kind, !.opts = opts, !.parsed = p]
       IN  dial' = IF p.err # NoError
                   THEN [d EXCEPT !.pc = "returned", !.ret = [client |-> Nil, err |-> p.err]]
                   ELSE IF ~dialOk
                   THEN [d EXCEPT !.pc = "returned", !.ret = [client |-> Nil, err |-> ErrDial]]
                   ELSE [d EXCEPT !.pc = "waiting", !.conn = "open", !.hs.pc = "run"]
    /\ UNCHANGED notDial

\* the goroutine: client, err := newClient(conn, opt), then blocked on
\* ch <- clientResult{...}. The peer is a Server.ServeHTTP that was sent
\* CONNECT; writeOk, hijackOk: whether the writes and the Hijack succeed
Dial_newClient(writeOk, hijackOk) ==
    /\ dial.hs.pc = "run"
    /\ LET open == dial.conn = "open"
           r == IF dial.kind = "http"
                THEN NewHTTPClient(dial.parsed.opt, open, writeOk, ServeHTTP("CONNECT", hijackOk))
                ELSE NewClient(dial.parsed.opt, open, writeOk)
       IN  dial' = [dial EXCEPT !.hs = [pc |-> "blocked", client |-> r.client, err |-> r.err],
                                !.conn = r.conn,
                                !.clean = open /\ writeOk /\ hijackOk]
    /\ UNCHANGED notDial

\* result := <-ch; return result.client, result.err
Dial_result ==
    /\ dial.pc = "waiting"
    /\ dial.hs.pc = "blocked"
    /\ dial' = [dial EXCEPT !.pc = "returned",
                            !.hs.pc = "delivered",
                            !.ret = [client |-> dial.hs.client, err |-> dial.hs.err],
                            !.conn = deferredClose(dial.hs.err, @)]
    /\ UNCHANGED notDial

\* case <-time.After(opt.ConnectTimeout): return nil, the timeout error; the
\* select is only reached when ConnectTimeout # 0
Dial_timeout ==
    /\ dial.pc = "waiting"
    /\ dial.parsed.opt.ConnectTimeout # 0
    /\ dial' = [dial EXCEPT !.pc = "returned",
                            !.ret = [client |-> Nil, err |-> ErrConnectTimeout],
                            !.conn = deferredClose(ErrConnectTimeout, @)]
    /\ UNCHANGED notDial

\* ------------------------------------------- the client's two mutexes
\* client.sending and client.mu as locks: who holds each, and where every
\* task of one client is between its Lock and Unlock statements.  The tasks
\* are two callers of Go/Call (send), the receive goroutine, a caller of
\* Close and a caller of IsAvailable; what the guarded code reads or writes
\* is left to the client model above, its outcomes are choices here.
Free == "free"
Senders == {"send1", "send2"}
Receiver == "receive"
Closer == "Close"
Asker == "IsAvailable"
LkTasks == Senders \cup {Receiver, Closer, Asker}

InitLk ==
    [sending |-> Free, mu |-> Free,
     pc |-> [t \in LkTasks |-> IF t = Receiver THEN "ReadHeader" ELSE "idle"]]
lkInit == lk = InitLk
notLk == <<coreVars, serviceMap, register, now, registry, http, hb, disc, rd, bc, dial, xc>>

\* m.Lock() by task t, then on to pc next: waits while the mutex is held,
\* by anyone (sync.Mutex is not reentrant)
lock(t, m, next) ==
    /\ lk[m] = Free
    /\ lk' = [lk EXCEPT ![m] = t, !.pc[t] = next]
\* m.Unlock() by task t
unlock(t, m, next) ==
    /\ lk[m] = t
    /\ lk' = [lk EXCEPT ![m] = Free, !.pc[t] = next]
goto(t, next) == lk' = [lk EXCEPT !.pc[t] = next]

\* a terminateCalls that takes mu before sending
terminateMuFirst(i) == <<"mu", "sending">>[i]
\* terminateCalls: client.sending.Lock() ... client.mu.Lock()
terminateOrder(i) == <<"sending", "mu">>[i]

\* send: sending.Lock(); registerCall (mu); Write; on a Write error
\* removeCall (mu); the deferred sending.Unlock()
Lk_send(t) ==
    /\ t \in Senders
    /\ \/ lk.pc[t] = "idle" /\ lock(t, "sending", "registerCall")
       \/ lk.pc[t] = "registerCall" /\ lock(t, "mu", "registered")
       \/ /\ lk.pc[t] = "registered"
          /\ \E next \in {"Write", "return"} : unlock(t, "mu", next)
       \/ /\ lk.pc[t] = "Write"
          /\ \E next \in {"return", "removeCall"} : goto(t, next)
       \/ lk.pc[t] = "removeCall" /\ lock(t, "mu", "removed")
       \/ lk.pc[t] = "removed" /\ unlock(t, "mu", "return")
       \/ lk.pc[t] = "return" /\ unlock(t, "sending", "done")
    /\ UNCHANGED notLk

\* receive: ReadHeader; removeCall (mu); ReadBody; again, or out of the
\* loop to terminateCalls on an error
Lk_receive ==
    /\ \/ /\ lk.pc[Receiver] = "ReadHeader"
          /\ \E next \in {"removeCall", "terminateCalls"} : goto(Receiver, next)
       \/ lk.pc[Receiver] = "removeCall" /\ lock(Receiver, "mu", "removed")
       \/ lk.pc[Receiver] = "removed" /\ unlock(Receiver, "mu", "ReadBody")
       \/ /\ lk.pc[Receiver] = "ReadBody"
          /\ \E next \in {"ReadHeader", "terminateCalls"} : goto(Receiver, next)
    /\ UNCHANGED notLk

\* terminateCalls: Lock, Lock, the loop over pending, and the deferred
\* Unlocks in reverse order
Lk_terminateCalls ==
    /\ \/ /\ lk.pc[Receiver] = "terminateCalls"
          /\ lock(Receiver, terminateOrder(1), "locked1")
       \/ /\ lk.pc[Receiver] = "locked1"
          /\ lock(Receiver, terminateOrder(2), "locked2")
       \/ /\ lk.pc[Receiver] = "locked2"
          /\ unlock(Receiver, terminateOrder(2), "unlocked2")
       \/ /\ lk.pc[Receiver] = "unlocked2"
          /\ unlock(Receiver, terminateOrder(1), "done")
    /\ UNCHANGED notLk

\* Close: mu.Lock(); closing; cc.Close(); the deferred mu.Unlock()
Lk_Close ==
    /\ \/ lk.pc[Closer] = "idle" /\ lock(Closer, "mu", "locked")
       \/ lk.pc[Closer] = "locked" /\ unlock(Closer, "mu", "idle")
    /\ UNCHANGED notLk

\* IsAvailable: mu.Lock(); read shutdown and closing; mu.Unlock()
Lk_IsAvailable ==
    /\ \/ lk.pc[Asker] = "idle" /\ lock(Asker, "mu", "locked")
       \/ lk.pc[Asker] = "locked" /\ unlock(Asker, "mu", "idle")
    /\ UNCHANGED notLk

\* the mutex task t is waiting for at its position, "" when it is not at a
\* Lock statement
wants(t) ==
    LET p == lk.pc[t]
    IN  IF t \in Senders
        THEN IF p = "idle" THEN "sending"
             ELSE IF p \in {"registerCall", "removeCall"} THEN "mu" ELSE ""
        ELSE IF t = Receiver
        THEN IF p = "removeCall" THEN "mu"
             ELSE IF p = "terminateCalls" THEN terminateOrder(1)
             ELSE IF p = "locked1" THEN terminateOrder(2) ELSE ""
        ELSE IF p = "idle" THEN "mu" ELSE ""

\* --------------------------------------------------- XClient.dial
\* One XClient used by two concurrent callers.  xc.obj are the Clients XDial
\* has returned, in the order made, each with the address it was dialled
\* for and its closing and shutdown flags; xc.clients is the cache, Nil for
\* an address without an entry.
MaxClients == 3
XCallers == {"caller1", "caller2"}
at == "@"
RpcAddrs == {<<"t", at, "a">>, <<"h", at, "b">>, <<"a">>}
ErrFormat == "rcp client err: wrong format, expect protocol@addr"

\* XDial: strings.Split(rpcAddr, "@") must give two parts
wrongFormat(rpcAddr) ==
    Cardinality({i \in DOMAIN rpcAddr : rpcAddr[i] = at}) + 1 # 2

\* Client.IsAvailable of a cached client
available(client) == ~client.shutdown /\ ~client.closing

IdleXCaller == [pc |-> "idle", rpcAddr |-> <<>>, client |-> Nil, err |-> NoError]
InitXc ==
    [mu |-> Free, clients |-> [a \in RpcAddrs |-> Nil], obj |-> <<>>,
     task |-> [t \in XCallers |-> IdleXCaller]]
xcInit == xc = InitXc
notXc == <<coreVars, serviceMap, register, now, registry, http, hb, disc, rd, bc, dial, lk>>

\* a dial that does not take xc.mu
muIgnored(holder) == TRUE
\* xc.mu.Lock()
muFree(holder) == holder = Free

\* dial: xc.mu.Lock(), entered by a caller that is not inside dial
XClient_dial(t, rpcAddr) ==
    /\ xc.task[t].pc \in {"idle", "returned"}
    /\ muFree(xc.mu)
    /\ xc' = [xc EXCEPT !.mu = t,
                        !.task[t] = [IdleXCaller EXCEPT !.pc = "lookup", !.rpcAddr = rpcAddr]]
    /\ UNCHANGED notXc

\* dial: client, ok := xc.clients[rpcAddr]; an unavailable one is closed
\* (Client.Close sets closing) and deleted
XClient_dial_lookup(t) ==
    /\ xc.task[t].pc = "lookup"
    /\ LET a == xc.task[t].rpcAddr
           id == xc.clients[a]
       IN  IF id # Nil /\ ~available(xc.obj[id])
           THEN xc' = [xc EXCEPT !.obj[id].closing = TRUE,
                                 !.clients[a] = Nil,
                                 !.task[t].client = Nil,
                                 !.task[t].pc = "XDial"]
           ELSE xc' = [xc EXCEPT !.task[t].client = id,
                                 !.task[t].pc = IF id = Nil THEN "XDial" ELSE "return"]
    /\ UNCHANGED notXc

\* dial: client, err = XDial(rpcAddr, xc.opt); on an error return (nil, err),
\* else xc.clients[rpcAddr] = client; the deferred Unlock
XClient_dial_XDial(t, dialOk) ==
    /\ xc.task[t].pc = "XDial"
    /\ LET a == xc.task[t].rpcAddr
           id == Len(xc.obj) + 1
       IN  IF wrongFormat(a) \/ ~dialOk \/ id > MaxClients
           THEN xc' = [xc EXCEPT !.mu = Free,
                                 !.task[t].pc = "returned",
                                 !.task[t].client = Nil,
                                 !.task[t].err = IF wrongFormat(a) THEN ErrFormat ELSE ErrDial]
           ELSE xc' = [xc EXCEPT !.mu = Free,
                                 !.obj = Append(@, [rpcAddr |-> a, closing |-> FALSE,
                                                    shutdown |-> FALSE]),
                                 !.clients[a] = id,
                                 !.task[t].pc = "returned",
                                 !.task[t].client = id]
    /\ UNCHANGED notXc

\* dial: return client, nil for the cached client; the deferred Unlock
XClient_dial_return(t) ==
    /\ xc.task[t].pc = "return"
    /\ xc' = [xc EXCEPT !.mu = Free, !.task[t].pc = "returned"]
    /\ UNCHANGED notXc

\* the receive loop of a dialled client ends: terminateCalls sets shutdown
XClient_clientDown(id) ==
    /\ id \in DOMAIN xc.obj
    /\ ~xc.obj[id].shutdown
    /\ xc' = [xc EXCEPT !.obj[id].shutdown = TRUE]
    /\ UNCHANGED notXc

\* XClient.Close: under xc.mu, Close every cached client and delete it
XClient_Close ==
    /\ muFree(xc.mu)
    /\ \E a \in RpcAddrs : xc.clients[a] # Nil
    /\ xc' = [xc EXCEPT !.clients = [a \in RpcAddrs |-> Nil],
                        !.obj = [id \in DOMAIN xc.obj |->
                                   IF xc.clients[xc.obj[id].rpcAddr] = id
                                   THEN [xc.obj[id] EXCEPT !.closing = TRUE]
                                   ELSE xc.obj[id]]]
    /\ UNCHANGED notXc

\* ------------------------------------------------------ the other parts
InitLib ==
    /\ registerInit
    /\ registryInit
    /\ heartbeatInit
    /\ discInit
    /\ rdInit
    /\ bcInit
    /\ dialInit /\ lkInit /\ xcInit

\* ------------------------------------------------------------------ Init
InitCall == [ServiceMethod |-> <<>>, Args |-> Nil, Reply |-> Nil,
             Seq |-> Nil, Error |-> NoError, Done |-> 0]
InitTask == [pc |-> "idle", ctx |-> FALSE, ret |-> "none"]
InitRecv == [pc |-> "read", h |-> HeaderItem(<<>>, Nil, NoError), call |-> Nil,
             err |-> NoError]

InitSrv == [pc |-> "read", h |-> HeaderItem(<<>>, Nil, NoError)]

InitCore ==
    /\ seq = FirstSeq
    /\ pending = <<>>
    /\ closing = FALSE
    /\ shutdown = FALSE
    /\ sending = NoTask
    /\ call = [c \in Calls |-> InitCall]
    /\ task = [c \in Calls |-> InitTask]
    /\ recv = InitRecv
    /\ closeRet = "none"
    /\ codecCloses = 0
    /\ conn = [client |-> "open", server |-> "open", net |-> "up"]
    /\ c2s = <<>>
    /\ s2c = <<>>
    /\ srv = InitSrv
    /\ reqs = <<>>
    /\ srvSending = NoTask
    /\ srvBuf = <<>>
    /\ wg = 0
    /\ written = <<>>
    /\ opt \in {OptionWith(t) : t \in HandleTimeouts}
    /\ rawSent = 0

Init == InitCore /\ InitLib

\* ------------------------------------------------------- Client.Go / Call
\* Go builds the Call and calls send, and returns the Call when send returns
\* (pc "sent").  Call(ctx, ...) is Go with a one-slot Done followed by the
\* select on ctx.Done() and call.Done: a caller of Go is a caller at "sent"
\* that takes neither case.  Callers are numbered in the order they start.
\* This step is Go up to send's registerCall: sending.Lock(), then under mu
\* the check of closing/shutdown, call.Seq = seq, pending[seq] = call, seq++;
\* on error call.Error = err, call.done(), and send returns.
Go(c, sm) ==
    /\ task[c].pc = "idle"
    /\ \A d \in 1..(c - 1) : task[d].pc # "idle"
    /\ sending = NoTask
    /\ LET new == [call EXCEPT ![c].ServiceMethod = sm, ![c].Args = ArgsOf(c)]
       IN  IF registerRefused(closing, shutdown)
           THEN /\ call' = failCall(new, c, ErrShutdown)
                /\ task' = [task EXCEPT ![c].pc = "sent"]
                /\ UNCHANGED <<seq, pending, sending>>
           ELSE /\ call' = [new EXCEPT ![c].Seq = seq]
                /\ pending' = pendingPut(pending, seq, c)
                /\ seq' = seqIncrement(seq)
                /\ task' = [task EXCEPT ![c].pc = "write"]
                /\ sending' = Sender(c)
    /\ UNCHANGED <<closing, shutdown, recv, closeRet, codecCloses,
                   conn, c2s, s2c, serverVars,
                   libVars>>

\* the caller's context is cancelled (or its deadline passes); Call looks at
\* ctx only in its select, so an earlier cancellation is first seen there
ctxCancel(c) ==
    /\ task[c].pc = "sent"
    /\ ~task[c].ctx
    /\ task' = [task EXCEPT ![c].ctx = TRUE]
    /\ UNCHANGED <<clientState, sending, call, recv, closeRet,
                   codecCloses, conn, c2s, s2c, serverVars,
                   libVars>>

\* GobCodec.Write encodes header and body into the buffered writer, flushes
\* (the flush error is dropped) and closes the connection when an Encode
\* returned an error.  The Args are values gob can encode, so Write fails
\* only on a dead connection, where the frame is lost, reported or not.
writeMayFail == connDeadForClient \/ conn.server = "closed"

\* send: fill client.header, cc.Write(&client.header, call.Args)
send_Write(c) ==
    /\ task[c].pc = "write"
    /\ \/ /\ c2s' = IF writeMayFail THEN c2s
                     ELSE c2s \o <<HeaderItem(call[c].ServiceMethod, call[c].Seq, NoError),
                                  BodyItem(call[c].Args)>>
          /\ task' = [task EXCEPT ![c].pc = "sent"]
          /\ sending' = NoTask
          /\ UNCHANGED conn
       \/ /\ writeMayFail
          /\ conn' = codecClose(conn)
          /\ task' = [task EXCEPT ![c].pc = "writeFailed"]
          /\ UNCHANGED <<c2s, sending>>
    /\ UNCHANGED <<clientState, call, recv, closeRet, codecCloses, s2c, serverVars,
                   libVars>>

\* send: the Write failed: removeCall(seq) and, when still pending, fail it
send_WriteFailed(c) ==
    /\ task[c].pc = "writeFailed"
    /\ LET found == removeCall(pending, call[c].Seq)
       IN  /\ pending' = pendingDelete(pending, call[c].Seq)
           /\ call' = IF found # Nil THEN failCall(call, found, ErrWrite) ELSE call
    /\ task' = [task EXCEPT ![c].pc = "sent"]
    /\ sending' = NoTask
    /\ UNCHANGED <<seq, closing, shutdown, recv, closeRet, codecCloses,
                   conn, c2s, s2c, serverVars,
                   libVars>>

\* Call: case <-ctx.Done(): removeCall(call.Seq); return "call failed: ..."
Call_ctxDone(c) ==
    /\ task[c].pc = "sent"
    /\ task[c].ctx
    /\ pending' = pendingDelete(pending, call[c].Seq)
    /\ task' = [task EXCEPT ![c].pc = "ret", ![c].ret = ErrCtx]
    /\ UNCHANGED <<seq, closing, shutdown, sending, call, recv, closeRet,
                   codecCloses, conn, c2s, s2c, serverVars,
                   libVars>>

\* Call: case call := <-call.Done: return call.Error
Call_Done(c) ==
    /\ task[c].pc = "sent"
    /\ call[c].Done > 0
    /\ task' = [task EXCEPT ![c].pc = "ret", ![c].ret = call[c].Error,
                            ![c].ctx = FALSE]
    /\ UNCHANGED <<clientState, sending, call, recv, closeRet,
                   codecCloses, conn, c2s, s2c, serverVars,
                   libVars>>

\* ------------------------------------------------------------ Client.Close
\* a Close that never looks at closing
closeNeverRefused(cl) == FALSE
\* under mu: if closing return ErrShutdown; closing = true; return cc.Close()
closeRefused(cl) == cl

\* a Close that clears the flag when it finds it set
closingCleared(cl) == ~cl
\* closing after Close: left as it is on the early return, else set to true
closingAfter(cl) == IF cl THEN cl ELSE TRUE

Close ==
    /\ codecCloses < MaxCloses
    /\ closing' = closingAfter(closing)
    /\ IF closeRefused(closing)
       THEN /\ closeRet' = ErrShutdown
            /\ UNCHANGED <<conn, codecCloses>>
       ELSE /\ conn' = codecClose(conn)
            /\ codecCloses' = codecCloses + 1
            /\ closeRet' = "cc.Close()"
    /\ UNCHANGED <<seq, pending, shutdown, sending, call, task, recv,
                   c2s, s2c, serverVars,
                   libVars>>

\* IsAvailable: !shutdown && !closing
IsAvailable == ~shutdown /\ ~closing

\* ------------------------------------------------------------ receive loop
\* a read with nothing to read fails on a dead or finished connection and
\* blocks otherwise; a read with a value to read may still fail once the
\* client's end is dead (the value may or may not be in the decoder's buffer)
\* a read that never fails
readNeverFails == FALSE
readMayFail == connDeadForClient \/ (s2c = <<>> /\ conn.server = "closed")

\* receive: cc.ReadHeader(&h) ; call := client.removeCall(h.Seq)
receive_ReadHeader ==
    /\ recv.pc = "read"
    /\ \/ /\ readMayFail
          /\ recv' = [recv EXCEPT !.pc = "terminate", !.err = ErrRead]
          /\ UNCHANGED <<pending, s2c>>
       \/ /\ s2c # <<>>
          /\ Head(s2c).k = "H"
          /\ recv' = [recv EXCEPT !.pc = "body", !.h = Head(s2c),
                                  !.call = removeCall(pending, Head(s2c).Seq)]
          /\ pending' = pendingDelete(pending, Head(s2c).Seq)
          /\ s2c' = Tail(s2c)
    /\ UNCHANGED <<seq, closing, shutdown, sending, call, task, closeRet,
                   codecCloses, conn, c2s, serverVars,
                   libVars>>

\* gob Decoder.Decode(e): a nil e discards the next value; an e that is not
\* a pointer is refused with an error and nothing is consumed
decodeRefused(target) == target = "non-pointer"

\* what receive passes to cc.ReadBody in its three cases
readBodyTarget(c, h) ==
    IF c = Nil THEN "non-pointer"              \* ReadBody(h.Error): a string
    ELSE IF h.Error # NoError THEN "nil"       \* ReadBody(nil)
    ELSE "reply"                               \* ReadBody(call.Reply)

\* receive: the switch on call and h.Error, then back to the loop test
receive_ReadBody ==
    /\ recv.pc = "body"
    /\ LET c == recv.call
           h == recv.h
           target == readBodyTarget(c, h)
       IN  IF decodeRefused(target)
           THEN /\ recv' = [recv EXCEPT !.pc = "terminate", !.err = ErrNonPointer]
                /\ UNCHANGED <<call, s2c>>
           ELSE \/ /\ readMayFail
                   /\ recv' = [recv EXCEPT !.pc = "terminate", !.err = ErrRead]
                   /\ call' = IF target = "nil"
                              THEN failCall(call, c, h.Error)
                              ELSE failCall(call, c, "reading body " \o ErrRead)
                   /\ UNCHANGED s2c
                \/ /\ s2c # <<>>
                   /\ recv' = InitRecv
                   /\ call' = IF target = "nil"
                              THEN failCall(call, c, h.Error)
                              ELSE doneCall([call EXCEPT ![c].Reply = Head(s2c).v], c)
                   /\ s2c' = Tail(s2c)
    /\ UNCHANGED <<clientState, sending, task, closeRet, codecCloses,
                   conn, c2s, serverVars,
                   libVars>>

\* a terminateCalls that fails no call
terminatedNone(p) == {}
\* a terminateCalls that skips the oldest pending call
terminatedButOldest(p) ==
    {p[x] : x \in {y \in DOMAIN p : \E z \in DOMAIN p : z < y}}
\* the calls terminateCalls ranges over
terminated(p) == pendingCalls(p)

\* terminateCalls(err): sending.Lock, mu.Lock, shutdown = true, every pending
\* call gets Error = err and done()
terminateCalls ==
    /\ recv.pc = "terminate"
    /\ sending = NoTask
    /\ shutdown' = TRUE
    /\ call' = [c \in Calls |->
                  IF c \in terminated(pending)
                  THEN [call[c] EXCEPT !.Error = recv.err, !.Done = @ + 1]
                  ELSE call[c]]
    /\ recv' = [recv EXCEPT !.pc = "exit"]
    /\ UNCHANGED <<seq, pending, closing, sending, task, closeRet,
                   codecCloses, conn, c2s, s2c, serverVars,
                   libVars>>

\* ------------------------------------------------------------ environment
\* the network drops the connection
netDown ==
    /\ conn.net = "up"
    /\ conn' = [conn EXCEPT !.net = "down"]
    /\ UNCHANGED <<clientState, sending, call, task, recv, closeRet,
                   codecCloses, c2s, s2c, serverVars,
                   libVars>>

\* ================================================================ server

ErrIllFormed == "rpc server: service/method request ill-formed"
ErrNoService == "rpc server: can't find service"
ErrNoMethod == "rpc server: can't find method"
ErrHandler == "handler error"
ErrBody == "read body error"
ErrTimeout == "rpc server: request handle timeout: expect within T"

\* strings.LastIndex(serviceMethod, "."), 0-based, -1 when absent
LastIndex(str, ch) ==
    LET hits == {i \in 1..Len(str) : str[i] = ch}
    IN  IF hits = {} THEN -1
        ELSE (CHOOSE i \in hits : \A j \in hits : j <= i) - 1

\* findService: the error it returns, "" when service and method exist
findService(sm) ==
    LET dot == LastIndex(sm, ".")
        serviceName == SubSeq(sm, 1, dot)
        methodName == SubSeq(sm, dot + 2, Len(sm))
    IN  IF dot < 0 THEN ErrIllFormed
        ELSE IF serviceName \notin DOMAIN serviceMap THEN ErrNoService
        ELSE IF methodName \notin serviceMap[serviceName].method THEN ErrNoMethod
        ELSE NoError

srvReadMayFail == connDeadForServer \/ (c2s = <<>> /\ conn.client = "closed")

Loop == <<"serveCodec">>
Sup(r) == <<"handleRequest", r>>
Inner(r) == <<"handler", r>>

\* gob decoding of a body value into a Header: refused, or (a body type that
\* shares field names with Header) accepted as a header without ServiceMethod
asHeader(item) == HeaderItem(<<>>, Nil, NoError)

\* readRequest, first half: readRequestHeader and findService.  On a
\* findService error readRequest returns at once: the body is not read.
readRequest_Header ==
    /\ srv.pc = "read"
    /\ \/ /\ srvReadMayFail
          /\ srv' = [srv EXCEPT !.pc = "wait"]
          /\ UNCHANGED c2s
       \/ /\ c2s # <<>>
          /\ c2s' = Tail(c2s)
          /\ \/ /\ Head(c2s).k = "H"
                /\ LET h == Head(c2s)
                       err == findService(h.ServiceMethod)
                   IN  srv' = IF err # NoError
                              THEN [pc |-> "respond", h |-> [h EXCEPT !.Error = err]]
                              ELSE [pc |-> "body", h |-> h]
             \/ /\ Head(c2s).k = "B"
                /\ \/ srv' = [srv EXCEPT !.pc = "wait"]
                   \/ srv' = [pc |-> "respond",
                              h |-> [asHeader(Head(c2s)) EXCEPT
                                       !.Error = findService(<<>>)]]
    /\ UNCHANGED <<clientVars, reqs, srvSending, srvBuf, wg, written, opt, rawSent,
                   conn, s2c,
                   libVars>>

\* a supervisor that always arms the timer
supervisorSelects(timeout) == "select"
\* the supervisor's first wait: <-called, or the select against the timer
supervisorStart(timeout) == IF timeout = 0 THEN "waitCalled" ELSE "select"

\* a request built around a fresh header instead of the one read
requestWithFreshHeader(h, argv) ==
    [h |-> HeaderItem(h.ServiceMethod, Nil, NoError), argv |-> argv, replyv |-> Nil,
     err |-> NoError, sup |-> supervisorStart(opt.HandleTimeout), inner |-> "call"]
newRequest(h, argv) ==
    [h |-> h, argv |-> argv, replyv |-> Nil, err |-> NoError,
     sup |-> supervisorStart(opt.HandleTimeout), inner |-> "call"]

\* readRequest, second half: cc.ReadBody(argvi); then serveCodec either
\* answers the error or does wg.Add(1) ; go handleRequest
readRequest_Body ==
    /\ srv.pc = "body"
    /\ \/ /\ srvReadMayFail \/ (c2s # <<>> /\ Head(c2s).k = "H")
          /\ srv' = [srv EXCEPT !.pc = "respond", !.h.Error = ErrBody]
          /\ UNCHANGED <<c2s, reqs, wg>>
       \/ /\ c2s # <<>>
          /\ Head(c2s).k = "B"
          /\ c2s' = Tail(c2s)
          /\ reqs' = Append(reqs, newRequest(srv.h, Head(c2s).v))
          /\ wg' = wg + 1
          /\ srv' = InitSrv
    /\ UNCHANGED <<clientVars, srvSending, srvBuf, written, opt, rawSent, conn, s2c,
                   libVars>>

\* a sendResponse that does not take the mutex
sendingUnlocked(holder) == TRUE
\* sendResponse: sending.Lock()
sendingFree(holder) == holder = NoTask

\* sendResponse, first half: sending.Lock() and Encode(h) into the writer
beginWrite(w, h) ==
    /\ sendingFree(srvSending)
    /\ srvSending' = w
    /\ srvBuf' = Append(srvBuf, h)

\* sendResponse, second half: Encode(body), Flush, sending.Unlock().  With
\* the connection dead the frame is lost, and the codec closes the
\* connection when the error surfaced in an Encode.
endWrite(w, h, body) ==
    /\ srvSending' = NoTask
    /\ srvBuf' = <<>>
    /\ written' = Append(written, [by |-> w, h |-> h])
    /\ IF connDeadForServer \/ conn.client = "closed"
       THEN /\ UNCHANGED s2c
            /\ \/ UNCHANGED conn
               \/ conn' = [conn EXCEPT !.server = "closed"]
       ELSE /\ s2c' = s2c \o Append(srvBuf, BodyItem(body))
            /\ UNCHANGED conn

\* serveCodec: req.h.Error = err.Error(); sendResponse(invalidRequest); continue
serveCodec_respond ==
    /\ srv.pc = "respond"
    /\ beginWrite(Loop, srv.h)
    /\ srv' = [srv EXCEPT !.pc = "respond2"]
    /\ UNCHANGED <<clientVars, reqs, wg, written, opt, rawSent, conn, c2s, s2c,
                   libVars>>

serveCodec_responded ==
    /\ srv.pc = "respond2"
    /\ endWrite(Loop, srv.h, invalidRequest)
    /\ srv' = InitSrv
    /\ UNCHANGED <<clientVars, reqs, wg, opt, rawSent, c2s, libVars>>

\* a serveCodec that closes the codec without wg.Wait()
waitSkipped(n) == TRUE
\* wg.Wait() returns when the counter is zero
waited(n) == n = 0

\* serveCodec after the loop: wg.Wait() ; cc.Close()
serveCodec_Close ==
    /\ srv.pc = "wait"
    /\ waited(wg)
    /\ srv' = [srv EXCEPT !.pc = "closed"]
    /\ conn' = [conn EXCEPT !.server = "closed"]
    /\ UNCHANGED <<clientVars, reqs, srvSending, srvBuf, wg, written, opt, rawSent,
                   c2s, s2c,
                   libVars>>

\* ------------------------------------------------------- handleRequest
Reqs == 1..Len(reqs)

\* the value the service method returns: Foo's methods return nil, a method
\* of some other receiver may return an error
handlerResults == {NoError, ErrHandler}

\* the handler task: err := req.svc.call(req.mtype, req.argv, req.replyv)
handler_call(r) ==
    /\ reqs[r].inner = "call"
    /\ \E e \in handlerResults :
         reqs' = [reqs EXCEPT ![r].inner = "called", ![r].err = e,
                              ![r].replyv = IF e = NoError THEN Sum(reqs[r].argv)
                                            ELSE Nil]
    /\ UNCHANGED <<clientVars, srv, srvSending, srvBuf, wg, written, opt, rawSent,
                   wireVars,
                   libVars>>

\* a buffered called: the handler's send never waits
calledBuffered(sup) == TRUE
\* called is unbuffered: the handler's send needs the supervisor to be
\* receiving, in <-called or in the select
calledReceiver(sup) == sup \in {"waitCalled", "select"}

\* called <- struct{}{} meets <-called; the handler sets req.h.Error
handler_called(r) ==
    /\ reqs[r].inner = "called"
    /\ calledReceiver(reqs[r].sup)
    /\ reqs' = [reqs EXCEPT ![r].inner = "respond", ![r].sup = "waitSent",
                            ![r].h.Error = IF reqs[r].err # NoError
                                           THEN reqs[r].err ELSE @]
    /\ UNCHANGED <<clientVars, srv, srvSending, srvBuf, wg, written, opt, rawSent,
                   wireVars,
                   libVars>>

handlerBody(r) == IF reqs[r].err # NoError THEN invalidRequest ELSE reqs[r].replyv

\* the handler's sendResponse(cc, req.h, ..., sending)
handler_respond(r) ==
    /\ reqs[r].inner = "respond"
    /\ beginWrite(Inner(r), reqs[r].h)
    /\ reqs' = [reqs EXCEPT ![r].inner = "respond2"]
    /\ UNCHANGED <<clientVars, srv, wg, written, opt, rawSent, wireVars,
                   libVars>>

handler_responded(r) ==
    /\ reqs[r].inner = "respond2"
    /\ endWrite(Inner(r), reqs[r].h, handlerBody(r))
    /\ reqs' = [reqs EXCEPT ![r].inner = "sent"]
    /\ UNCHANGED <<clientVars, srv, wg, opt, rawSent, c2s, libVars>>

\* sent <- struct{}{} meets <-sent; handleRequest returns, wg.Done()
handler_sent(r) ==
    /\ reqs[r].inner = "sent"
    /\ reqs[r].sup = "waitSent"
    /\ reqs' = [reqs EXCEPT ![r].inner = "exit", ![r].sup = "done"]
    /\ wg' = wg - 1
    /\ UNCHANGED <<clientVars, srv, srvSending, srvBuf, written, opt, rawSent, wireVars,
                   libVars>>

\* the select's case <-time.After(timeout): req.h.Error = "... timeout ..."
handleRequest_timeout(r) ==
    /\ reqs[r].sup = "select"
    /\ reqs' = [reqs EXCEPT ![r].sup = "timeout", ![r].h.Error = ErrTimeout]
    /\ UNCHANGED <<clientVars, srv, srvSending, srvBuf, wg, written, opt, rawSent,
                   wireVars,
                   libVars>>

\* the timeout case's sendResponse(cc, req.h, invalidRequest, sending)
handleRequest_respond(r) ==
    /\ reqs[r].sup = "timeout"
    /\ beginWrite(Sup(r), reqs[r].h)
    /\ reqs' = [reqs EXCEPT ![r].sup = "timeout2"]
    /\ UNCHANGED <<clientVars, srv, wg, written, opt, rawSent, wireVars,
                   libVars>>

handleRequest_responded(r) ==
    /\ reqs[r].sup = "timeout2"
    /\ endWrite(Sup(r), reqs[r].h, invalidRequest)
    /\ reqs' = [reqs EXCEPT ![r].sup = "done"]
    /\ wg' = wg - 1
    /\ UNCHANGED <<clientVars, srv, opt, rawSent, c2s, libVars>>

\* ============================================================= environment
\* The peer of the client, seen from the client: a server that takes the
\* request frames in the order sent and answers each once, in any order,
\* echoing the request's Seq, with the reply or with an error in the header.
responseErrors == {NoError, ErrTimeout}

FrameStarts(stream) == {i \in 1..Len(stream) : i % 2 = 1 /\ i + 1 <= Len(stream)}
dropFrame(stream, i) == SubSeq(stream, 1, i - 1) \o SubSeq(stream, i + 2, Len(stream))

peer_Respond(i, e) ==
    /\ ~connDeadForServer /\ ~connDeadForClient
    /\ i \in FrameStarts(c2s)
    /\ c2s' = dropFrame(c2s, i)
    /\ s2c' = s2c \o << HeaderItem(c2s[i].ServiceMethod, c2s[i].Seq, e),
                        BodyItem(IF e = NoError THEN Sum(c2s[i + 1].v)
                                 ELSE invalidRequest) >>
    /\ UNCHANGED <<clientVars, serverVars, conn, libVars>>

\* The peer of the server, seen from the server: a client that writes
\* request frames, numbered as a client numbers them, with any ServiceMethod.
ServiceMethods ==
    { FooSum, <<"F", "o", "o", "S", "u", "m">>,
      <<"B", "a", "r", ".", "S", "u", "m">>, <<"F", "o", "o", ".", "N", "o">> }

\* request frames the peer of the server writes
MaxReqs == 2

rawClient_Write(sm) ==
    /\ conn.net = "up"
    /\ rawSent < MaxReqs
    /\ rawSent' = rawSent + 1
    /\ c2s' = c2s \o << HeaderItem(sm, rawSent', NoError), BodyItem(ArgsOf(rawSent')) >>
    /\ UNCHANGED <<clientVars, srv, reqs, srvSending, srvBuf, wg, written, opt,
                   conn, s2c,
                   libVars>>

\* ================================================================== Next
ClientNext ==
    \/ \E c \in Calls : Go(c, FooSum)
    \/ \E c \in Calls : ctxCancel(c)
    \/ \E c \in Calls : send_Write(c)
    \/ \E c \in Calls : send_WriteFailed(c)
    \/ \E c \in Calls : Call_ctxDone(c)
    \/ \E c \in Calls : Call_Done(c)
    \/ Close
    \/ receive_ReadHeader
    \/ receive_ReadBody
    \/ terminateCalls

ServerNext ==
    \/ readRequest_Header
    \/ readRequest_Body
    \/ serveCodec_respond
    \/ serveCodec_responded
    \/ serveCodec_Close
    \/ \E r \in Reqs : handler_call(r)
    \/ \E r \in Reqs : handler_called(r)
    \/ \E r \in Reqs : handler_respond(r)
    \/ \E r \in Reqs : handler_responded(r)
    \/ \E r \in Reqs : handler_sent(r)
    \/ \E r \in Reqs : handleRequest_timeout(r)
    \/ \E r \in Reqs : handleRequest_respond(r)
    \/ \E r \in Reqs : handleRequest_responded(r)

\* the client against its peer
NextClient ==
    \/ ClientNext
    \/ \E i \in 1..Len(c2s), e \in responseErrors : peer_Respond(i, e)
    \/ netDown

\* the option is the server's; the client runs against its peer
InitClient == Init /\ opt.HandleTimeout = 0

SpecClient == InitClient /\ [][NextClient]_vars

\* the server connection against its peer
NextServer ==
    \/ ServerNext
    \/ \E sm \in ServiceMethods : rawClient_Write(sm)
    \/ netDown

SpecServer == Init /\ [][NextServer]_vars

\* a server with nothing registered yet and its concurrent Register calls
InitRegister ==
    /\ InitCore
    /\ opt.HandleTimeout = 0
    /\ serviceMap = <<>>
    /\ register = [t \in Regs |-> InitRegTask]
    /\ registryInit
    /\ heartbeatInit
    /\ discInit
    /\ rdInit
    /\ bcInit
    /\ dialInit /\ lkInit /\ xcInit

NextRegister ==
    \/ \E t \in Regs, typ \in {Foo, Bar} : Register_newService(t, typ)
    \/ \E t \in Regs : Register_LoadOrStore(t)

SpecRegister == InitRegister /\ [][NextRegister]_vars

\* a registry built with some timeout, the servers that POST to it, the
\* clients that GET from it, and one server running Heartbeat
InitRegistry ==
    /\ InitCore
    /\ opt.HandleTimeout = 0
    /\ registerInit
    /\ now = 0
    /\ registry \in {NewRegistry(t) : t \in RegistryTimeouts}
    /\ http = NoResponse
    /\ heartbeatInit
    /\ discInit
    /\ rdInit
    /\ bcInit
    /\ dialInit /\ lkInit /\ xcInit

\* the periods Heartbeat is called with
Durations == {0, 1, 2}

NextRegistry ==
    \/ \E addr \in Addrs \cup {NoAddr} : ServeHTTP_POST(addr)
    \/ ServeHTTP_GET
    \/ ServeHTTP_other
    \/ \E d \in Durations : Heartbeat(AddrA, d)
    \/ Heartbeat_tick
    \/ Tick

SpecRegistry == InitRegistry /\ [][NextRegistry]_vars

\* a discovery built over some list with some random index, and its callers
InitDiscovery ==
    /\ InitCore
    /\ opt.HandleTimeout = 0
    /\ registerInit
    /\ registryInit
    /\ heartbeatInit
    /\ disc \in {NewMultiServerDiscovery(l, i) : l \in ServerLists, i \in 0..MaxIndex}
    /\ rdInit
    /\ bcInit
    /\ dialInit /\ lkInit /\ xcInit

NextDiscovery ==
    \/ \E l \in ServerLists : Discovery_Update(l)
    \/ \E c \in Callers, mode \in SelectModes : Discovery_Get(c, mode)

SpecDiscovery == InitDiscovery /\ [][NextDiscovery]_vars

\* a registry discovery built with some timeout, at time 0
DiscoveryTimeouts == {0, 2}
InitRd ==
    /\ InitCore
    /\ opt.HandleTimeout = 0
    /\ registerInit
    /\ registryInit
    /\ heartbeatInit
    /\ disc = NewMultiServerDiscovery(<<>>, 0)
    /\ rd \in {NewTinyRegistryDiscovery(t) : t \in DiscoveryTimeouts}
    /\ bcInit
    /\ dialInit /\ lkInit /\ xcInit

NextRd ==
    \/ Rd_Refresh
    \/ \E l \in {<<>>, <<AddrB, AddrA>>} : Rd_Update(l)
    \/ \E op \in {"Get", "GetAll"} : Rd_Call(op, RandomSelect)
    \/ Rd_Get
    \/ Rd_GetAll
    \/ Rd_Tick

SpecRd == InitRd /\ [][NextRd]_vars

\* an XClient on which Broadcaset is called once
InitBroadcast ==
    /\ InitCore
    /\ opt.HandleTimeout = 0
    /\ InitLib

NextBroadcast ==
    \/ \E n \in 0..MaxServers, getAllErr \in {NoError, ErrGet}, replyNil \in BOOLEAN :
          Broadcaset(n, getAllErr, replyNil)
    \/ \E i \in 1..MaxServers : Broadcaset_call(i)
    \/ \E i \in 1..MaxServers : Broadcaset_record(i)
    \/ Broadcaset_return

SpecBroadcast == InitBroadcast /\ [][NextBroadcast]_vars

\* one call of Dial or DialHTTP
InitDialSpec ==
    /\ InitCore
    /\ opt.HandleTimeout = 0
    /\ InitLib

NextDial ==
    \/ \E kind \in {"tcp", "http"}, opts \in OptionLists, dialOk \in BOOLEAN :
          Dial(kind, opts, dialOk)
    \/ \E writeOk, hijackOk \in BOOLEAN : Dial_newClient(writeOk, hijackOk)
    \/ Dial_result
    \/ Dial_timeout

\* one XClient under concurrent callers
InitXClient == InitCore /\ opt.HandleTimeout = 0 /\ InitLib
NextXClient ==
    \/ \E t \in XCallers, a \in RpcAddrs : XClient_dial(t, a)
    \/ \E t \in XCallers : XClient_dial_lookup(t)
    \/ \E t \in XCallers, dialOk \in BOOLEAN : XClient_dial_XDial(t, dialOk)
    \/ \E t \in XCallers : XClient_dial_return(t)
    \/ \E id \in 1..MaxClients : XClient_clientDown(id)
    \/ XClient_Close
SpecXClient == InitXClient /\ [][NextXClient]_vars

\* the lock behaviour of one client
InitLocks == InitCore /\ opt.HandleTimeout = 0 /\ InitLib
NextLocks ==
    \/ \E t \in Senders : Lk_send(t)
    \/ Lk_receive
    \/ Lk_terminateCalls
    \/ Lk_Close
    \/ Lk_IsAvailable
SpecLocks == InitLocks /\ [][NextLocks]_vars

SpecDial == InitDialSpec /\ [][NextDial]_vars

\* ------------------------------------------------------------ ServeConn
\* what a peer may send first: bytes json decodes into an Option or not,
\* with the right MagicNumber or another, with a CodecType that has a
\* factory or one that has none
Offers ==
    [k : {"O"}, json : BOOLEAN, MagicNumber : {MagicNumber, 0},
     CodecType : {GobType, JsonType}, HandleTimeout : HandleTimeouts]

\* json.Decode(&opt): the Option the offer decodes into
decodeOption(o) ==
    [MagicNumber |-> o.MagicNumber, CodecType |-> o.CodecType,
     HandleTimeout |-> o.HandleTimeout]

\* a handshake that forgets the magic number
refusedWithoutMagic(o) == ~o.json \/ o.CodecType \notin DOMAIN NewCodecFuncMap
\* ServeConn's three returns before serveCodec
handshakeRefused(o) ==
    \/ ~o.json
    \/ o.MagicNumber # MagicNumber
    \/ o.CodecType \notin DOMAIN NewCodecFuncMap

\* a connection just accepted: the peer's first bytes are on it, nothing
\* is decoded yet
InitServeConn ==
    /\ seq = FirstSeq
    /\ pending = <<>>
    /\ closing = FALSE
    /\ shutdown = FALSE
    /\ sending = NoTask
    /\ call = [c \in Calls |-> InitCall]
    /\ task = [c \in Calls |-> InitTask]
    /\ recv = InitRecv
    /\ closeRet = "none"
    /\ codecCloses = 0
    /\ conn = [client |-> "open", server |-> "open", net |-> "up"]
    /\ c2s \in {<<o>> : o \in Offers}
    /\ s2c = <<>>
    /\ srv = [InitSrv EXCEPT !.pc = "option"]
    /\ reqs = <<>>
    /\ srvSending = NoTask
    /\ srvBuf = <<>>
    /\ wg = 0
    /\ written = <<>>
    /\ opt = ZeroOption
    /\ rawSent = 0
    /\ InitLib

\* ServeConn up to serveCodec: decode the Option, check MagicNumber and
\* CodecType; on any failure return, and the deferred conn.Close() runs
ServeConn_Option ==
    /\ srv.pc = "option"
    /\ \/ /\ srvReadMayFail
          /\ srv' = [srv EXCEPT !.pc = "rejected"]
          /\ conn' = [conn EXCEPT !.server = "closed"]
          /\ UNCHANGED <<c2s, opt>>
       \/ /\ c2s # <<>>
          /\ Head(c2s).k = "O"
          /\ c2s' = Tail(c2s)
          /\ opt' = IF Head(c2s).json THEN decodeOption(Head(c2s)) ELSE opt
          /\ IF handshakeRefused(Head(c2s))
             THEN /\ srv' = [srv EXCEPT !.pc = "rejected"]
                  /\ conn' = [conn EXCEPT !.server = "closed"]
             ELSE /\ srv' = InitSrv
                  /\ UNCHANGED conn
    /\ UNCHANGED <<clientVars, reqs, srvSending, srvBuf, wg, written, rawSent, s2c,
                   libVars>>

\* a server connection from its handshake on, against its peer
NextServeConn ==
    \/ ServeConn_Option
    \/ NextServer

SpecServeConn == InitServeConn /\ [][NextServeConn]_vars

\* the client against the server, end to end
NextE2E ==
    \/ ClientNext
    \/ ServerNext
    \/ netDown

SpecE2E == Init /\ [][NextE2E]_vars

\* The client with its tasks scheduled fairly: the receive goroutine, a
\* sender inside send and a caller in Call's select each take their step
\* when it stays possible.
FairSpecClient ==
    /\ SpecClient
    /\ WF_vars(receive_ReadHeader)
    /\ WF_vars(receive_ReadBody)
    /\ WF_vars(terminateCalls)
    /\ \A c \in Calls : WF_vars(send_Write(c))
    /\ \A c \in Calls : WF_vars(send_WriteFailed(c))
    /\ \A c \in Calls : WF_vars(Call_ctxDone(c))
    /\ \A c \in Calls : WF_vars(Call_Done(c))

\* The server with its tasks scheduled fairly: the serve loop inside
\* sendResponse, a handler task and its supervisor each take their step when
\* it stays possible; the timer of the select may or may not fire before
\* called.
FairSpecServer ==
    /\ SpecServer
    /\ WF_vars(serveCodec_respond)
    /\ WF_vars(serveCodec_responded)
    /\ \A r \in 1..MaxReqs :
          /\ WF_vars(r <= Len(reqs) /\ handler_call(r))
          /\ WF_vars(r <= Len(reqs) /\ handler_called(r))
          /\ WF_vars(r <= Len(reqs) /\ handler_respond(r))
          /\ WF_vars(r <= Len(reqs) /\ handler_responded(r))
          /\ WF_vars(r <= Len(reqs) /\ handler_sent(r))
          /\ WF_vars(r <= Len(reqs) /\ handleRequest_respond(r))
          /\ WF_vars(r <= Len(reqs) /\ handleRequest_responded(r))

\* ================================================================ claims

\* C1: every registered call has Seq > 0, below the client's next seq; a
\* call registered later has a strictly greater Seq; the registered calls
\* hold exactly the numbers 1..n, so no Seq is ever given twice, whatever
\* became of the earlier calls (failed write, cancellation).
C1_SeqStrictlyIncreasing ==
    LET registered == {c \in Calls : call[c].Seq # Nil}
    IN  /\ seq >= FirstSeq
        /\ \A c \in registered : call[c].Seq > 0 /\ call[c].Seq < seq
        /\ \A c, d \in registered : c < d => call[c].Seq < call[d].Seq
        /\ {call[c].Seq : c \in registered} = 1..Cardinality(registered)
        /\ seq = FirstSeq + Cardinality(registered)

\* two calls registered as 1 and 2, the first cancelled and the second
\* failed in its write
C1_Witness ==
    /\ call[1].Seq = 1
    /\ call[2].Seq = 2
    /\ task[1].ret = ErrCtx
    /\ call[2].Error = ErrWrite

C3_OrphanResponseDiscarded ==
    /\ recv.pc \in {"terminate", "exit"} => recv.err = ErrRead
    /\ \A c \in Calls : call[c].Error # ErrNonPointer

\* C4: of the frames handed to the codec, at most one carries the Seq of a
\* request given to handleRequest, it is written by that request's
\* supervisor or handler, and once handleRequest has returned there is
\* exactly one.
C4_OneResponsePerRequest ==
    \A r \in Reqs :
        LET frames == {i \in 1..Len(written) : written[i].h.Seq = reqs[r].h.Seq}
        IN  /\ Cardinality(frames) <= 1
            /\ \A i \in frames : written[i].by \in {Sup(r), Inner(r)}
            /\ reqs[r].sup = "done" => Cardinality(frames) = 1
            /\ (srvSending \in {Sup(r), Inner(r)}) => frames = {}

\* a request answered with the timeout error whose handler finished later
\* and stays blocked on called
C4_Witness ==
    \E r \in Reqs :
        /\ reqs[r].sup = "done"
        /\ reqs[r].inner = "called"
        /\ \E i \in 1..Len(written) :
             written[i].by = Sup(r) /\ written[i].h.Error = ErrTimeout

\* C5: whenever the serve loop is about to read a request, the stream
\* stands at a frame boundary: what it reads next is a header.
C5_StreamStaysAligned ==
    (srv.pc = "read" /\ c2s # <<>>) => Head(c2s).k = "H"

\* C6: a call only ever receives the result of its own request: the reply
\* stored in a call is the sum of its own Args, the call the receive loop
\* took for a header is the one registered under the header's Seq, and
\* pending maps each Seq to the call that carries it.
C6_RoutedBySeq ==
    /\ \A c \in Calls : call[c].Reply # Nil => call[c].Reply = Sum(call[c].Args)
    /\ (recv.pc = "body" /\ recv.call # Nil) => call[recv.call].Seq = recv.h.Seq
    /\ \A s \in DOMAIN pending : call[pending[s]].Seq = s

\* the second call has its reply while the first, sent earlier, is still
\* pending: the responses arrived out of order
C6_Witness ==
    /\ call[2].Reply = Sum(ArgsOf(2))
    /\ call[2].Done = 1
    /\ call[1].Done = 0
    /\ 1 \in DOMAIN pending
    /\ task[1].pc = "sent"

\* C7 as stated: once closing is set, a later Close returns ErrShutdown
\* without closing the codec, and pending and seq never change again.
C7_NothingChangesAfterClose ==
    [][closing =>
         /\ closing'
         /\ codecCloses' = codecCloses
         /\ closeRet' \in {closeRet, ErrShutdown}
         /\ pending' = pending
         /\ seq' = seq]_vars

\* C7 amended: once closing is set, a later Close returns ErrShutdown
\* without closing the codec, seq never changes and pending never gains an
\* entry (it may still lose entries).
C7_NoRegistrationAfterClose ==
    [][closing =>
         /\ closing'
         /\ codecCloses' = codecCloses
         /\ closeRet' \in {closeRet, ErrShutdown}
         /\ DOMAIN pending' \subseteq DOMAIN pending
         /\ seq' = seq]_vars

\* a second Close returned ErrShutdown, a call issued after the first was
\* refused, and a call registered before it is still pending
C7_Witness ==
    /\ closing
    /\ closeRet = ErrShutdown
    /\ codecCloses = 1
    /\ call[2].Error = ErrShutdown
    /\ 1 \in DOMAIN pending

\* C8: a call issued when closing or shutdown is set is completed at once
\* with ErrShutdown: it gets no Seq, writes nothing, leaves pending and seq
\* as they were; afterwards the call is never touched again, its caller's
\* steps change neither the stream nor pending nor seq, and its Call
\* returns ErrShutdown unless its context was cancelled.
C8_RefusedAfterShutdown ==
    [][\A c \in Calls :
         /\ ((closing \/ shutdown) /\ task[c].pc = "idle" /\ task'[c].pc # "idle") =>
              /\ task'[c].pc = "sent"
              /\ call'[c].Error = ErrShutdown
              /\ call'[c].Done = 1
              /\ call'[c].Seq = Nil
              /\ c2s' = c2s
              /\ pending' = pending
              /\ seq' = seq
         /\ (call[c].Seq = Nil /\ task[c].pc = "sent") =>
              /\ task'[c].pc \in {"sent", "ret"}
              /\ call'[c] = call[c]
              /\ task'[c] # task[c] => (c2s' = c2s /\ pending' = pending /\ seq' = seq)
              /\ (task'[c].pc = "ret" /\ ~task[c].ctx) => task'[c].ret = ErrShutdown
      ]_vars

\* a Call issued after the receive loop shut the client down, with no
\* Close, returned ErrShutdown
C8_Witness ==
    /\ shutdown
    /\ ~closing
    /\ \E c \in Calls : task[c].pc = "ret" /\ task[c].ret = ErrShutdown
                        /\ call[c].Seq = Nil

\* C9: a caller inside Call whose context is cancelled, or whose response
\* is on the connection, or whose connection is dead or closed, eventually
\* returns.
C9_CallEventuallyReturns ==
    \A c \in Calls :
        (/\ task[c].pc \in {"write", "writeFailed", "sent"}
         /\ \/ task[c].ctx
            \/ connDeadForClient
            \/ \E i \in 1..Len(s2c) : s2c[i].k = "H" /\ s2c[i].Seq = call[c].Seq)
        ~> (task[c].pc = "ret")

\* a Call that returned the error terminateCalls gave it on a dead connection
C9_Witness ==
    /\ connDeadForClient
    /\ recv.pc = "exit"
    /\ \E c \in Calls : task[c].pc = "ret" /\ task[c].ret = ErrRead

\* C10: a response carrying the timeout error exists only with
\* HandleTimeout # 0 and is written by the request's supervisor under the
\* request's Seq; what the supervisor writes is the timeout error, and it
\* takes the timer case whatever the handler is doing; a call fails with
\* the timeout error only when the server wrote it for the call's Seq, the
\* receive loop gives a pending call the error of its header, and Call
\* returns the call's error.
C10_TimeoutResponse ==
    /\ [](/\ \A i \in 1..Len(written) :
               /\ written[i].h.Error = ErrTimeout =>
                    /\ opt.HandleTimeout # 0
                    /\ \E r \in Reqs : /\ written[i].by = Sup(r)
                                       /\ written[i].h.Seq = reqs[r].h.Seq
               /\ (\E r \in Reqs : written[i].by = Sup(r)) =>
                    written[i].h.Error = ErrTimeout
          /\ \A r \in Reqs : reqs[r].sup \in {"select", "timeout", "timeout2"} =>
                                opt.HandleTimeout # 0
          /\ \A c \in Calls : call[c].Error = ErrTimeout =>
               \E i \in 1..Len(written) : /\ written[i].h.Seq = call[c].Seq
                                          /\ written[i].h.Error = ErrTimeout)
    /\ [][/\ \A r \in Reqs :
               (reqs[r].sup = "select" /\ reqs'[r].sup = "timeout") =>
                    /\ reqs'[r].h.Error = ErrTimeout
                    /\ reqs'[r].inner = reqs[r].inner
          /\ (recv.pc = "body" /\ recv.call # Nil /\ recv.h.Error = ErrTimeout
              /\ recv'.pc = "read") =>
                    call'[recv.call].Error = ErrTimeout
          /\ \A c \in Calls :
               (task[c].pc = "sent" /\ task'[c].pc = "ret" /\ task'[c].ret # ErrCtx) =>
                    task'[c].ret = call[c].Error
         ]_vars

\* a Call returned the timeout error while its request's handler is still
\* inside the service method
C10_Witness ==
    \E c \in Calls, r \in Reqs :
        /\ task[c].pc = "ret"
        /\ task[c].ret = ErrTimeout
        /\ reqs[r].h.Seq = call[c].Seq
        /\ reqs[r].inner = "call"

C13_RegisterOnce ==
    /\ [](\A n \in {Foo, Bar} :
            LET done == {t \in Regs : register[t].pc = "done" /\ register[t].s.name = n}
                won == {t \in done : register[t].ret = NoError}
            IN  /\ \A t \in done \ won : register[t].ret = ErrDup
                /\ done # {} =>
                     /\ Cardinality(won) = 1
                     /\ n \in DOMAIN serviceMap
                     /\ \A t \in won : serviceMap[n] = register[t].s
                /\ n \in DOMAIN serviceMap => done # {})
    /\ [][\A n \in DOMAIN serviceMap :
            n \in DOMAIN serviceMap' /\ serviceMap'[n] = serviceMap[n]]_vars

\* three concurrent Register calls for Foo, all past newService before any
\* store: the second to store won nothing, the map holds the first
C13_Witness ==
    /\ \A t \in Regs : register[t].pc = "done" /\ register[t].s.name = Foo
    /\ register[2].ret = NoError
    /\ register[1].ret = ErrDup
    /\ register[3].ret = ErrDup
    /\ serviceMap[Foo].rcvr = 2

\* ------------------------------------------------------------------ C14
C14_GetStep == http' # http /\ http'.method = "GET"
C14_Kept ==
    {a \in DOMAIN registry.servers :
        registry.timeout = 0 \/ now < registry.servers[a] + registry.timeout}

\* C14: a registry GET answers exactly the registered addresses with
\* timeout = 0 or now < start + timeout, each once and in ascending order,
\* and leaves exactly those in the server map, with their start unchanged;
\* an address whose last POST is at least timeout old is not listed.
C14_GetListsAlive ==
    /\ [][C14_GetStep =>
            /\ {http'.servers[i] : i \in 1..Len(http'.servers)} = C14_Kept
            /\ \A i, j \in 1..Len(http'.servers) :
                   i < j => Less(http'.servers[i], http'.servers[j])
            /\ DOMAIN registry'.servers = C14_Kept
            /\ \A a \in C14_Kept : registry'.servers[a] = registry.servers[a]
            /\ \A a \in DOMAIN registry.servers :
                   (registry.timeout # 0 /\ now >= registry.servers[a] + registry.timeout)
                      => \A i \in 1..Len(http'.servers) : http'.servers[i] # a]_vars
    /\ [](http.method = "GET" =>
            \A i, j \in 1..Len(http.servers) :
               i < j => Less(http.servers[i], http.servers[j]))

\* a GET at time 6 with timeout 5 answered "ab", "b": "a", last POSTed
\* at most at time 1, was dropped
C14_Witness ==
    /\ http.method = "GET"
    /\ http.at = now
    /\ now = 6
    /\ registry.timeout = 5
    /\ http.servers = <<AddrAB, AddrB>>
    /\ DOMAIN registry.servers = {AddrAB, AddrB}
    /\ hb.pc = "stopped"
    /\ hb.addr = AddrA
\* ------------------------------------------------------------------ C15
C15_PostStep == http' # http /\ http'.method = "POST"

\* C15: a POST with a non-empty address answers 200 and inserts the address
\* or resets its start to the current time, touching no other entry; a POST
\* with an empty address answers 500 and leaves the map unchanged; a server
\* whose heartbeat period is shorter than the registry timeout (or whose
\* registry never expires) is listed by every GET issued while its heartbeat
\* runs, whatever the other servers POST and the clients GET in between.
C15_PostRefreshes ==
    /\ [][C15_PostStep =>
            IF http'.addr = NoAddr
            THEN http'.status = 500 /\ registry' = registry
            ELSE /\ http'.status = 200
                 /\ DOMAIN registry'.servers = DOMAIN registry.servers \cup {http'.addr}
                 /\ registry'.servers[http'.addr] = now
                 /\ \A a \in DOMAIN registry.servers \ {http'.addr} :
                        registry'.servers[a] = registry.servers[a]
                 /\ registry'.timeout = registry.timeout]_vars
    /\ [][(/\ C14_GetStep
            /\ hb.pc = "running"
            /\ (registry.timeout = 0 \/ hb.duration < registry.timeout))
           => \E i \in 1..Len(http'.servers) : http'.servers[i] = hb.addr]_vars

\* the heartbeat of "a" with period 1 has POSTed six times to a registry with
\* timeout 2, "b" has expired, and a GET at time 5 lists "a" alone
C15_Witness ==
    /\ registry.timeout = 2
    /\ hb.pc = "running"
    /\ hb.duration = 1
    /\ hb.posts = 6
    /\ now = 5
    /\ http.method = "GET"
    /\ http.at = now
    /\ http.servers = <<hb.addr>>
    /\ registry.servers[hb.addr] = now
\* ------------------------------------------------------------------ C16
\* C16: Heartbeat sends one POST at once and then one POST per period, at
\* the end of each period, for as long as every earlier POST succeeded; once
\* a POST has returned an error the heartbeat has stopped and sends nothing
\* more; a period of 0 is replaced by defaultTimeout minus one minute.
C16_HeartbeatUntilError ==
    /\ [](hb.pc # "idle" =>
            /\ hb.duration = (IF hb.given = 0 THEN defaultTimeout - 1 ELSE hb.given)
            /\ hb.posts >= 1
            /\ (hb.pc = "running") = (hb.err = NoError)
            /\ (hb.pc = "stopped") = (hb.err # NoError))
    /\ [](hb.pc = "running" =>
            /\ hb.next - hb.duration <= now /\ now <= hb.next
            /\ hb.posts = 1 + ((hb.next - hb.duration - hb.start) \div hb.duration)
            /\ (hb.next - hb.start) % hb.duration = 0)
    /\ [][(hb.pc = "idle" /\ hb'.pc # "idle") =>
              (hb'.posts = 1 /\ hb'.start = now)]_vars
    /\ [][hb'.posts # hb.posts =>
              /\ hb'.posts = hb.posts + 1
              /\ hb.err = NoError
              /\ hb.pc = "running" => now = hb.next]_vars
    /\ [][hb.err # NoError => hb' = hb]_vars

\* Heartbeat was called with period 0 at time 0, POSTed at 0 and at 4, the
\* second POST failed, and nothing was sent up to time 6
C16_Witness ==
    /\ hb.pc = "stopped"
    /\ hb.given = 0
    /\ hb.start = 0
    /\ hb.posts = 2
    /\ hb.err = ErrPost
    /\ now = 6
\* ------------------------------------------------------------------ C17
C17_GetStep == disc'.gets # disc.gets

\* C17: the RoundRobinSelect results since the last Update (or since
\* construction), over a list of n servers and from index i, are
\* servers[i mod n], servers[(i+1) mod n], ... in the order the Gets took the
\* lock, whichever callers issued them and whatever other Gets came between;
\* a Get on an empty list returns the error and no address; a Get that
\* returns no error returns an element of the current list.
C17_RoundRobinCycles ==
    /\ [](\A j \in 1..Len(disc.got) :
            /\ Len(disc.servers) > 0
            /\ disc.got[j] = disc.servers[((disc.from + j - 1) % Len(disc.servers)) + 1])
    /\ [][C17_GetStep =>
            /\ (Len(disc.servers) = 0) = (disc'.ret.err = ErrNoServers)
            /\ disc'.ret.err # NoError => disc'.ret.s = NoAddr
            /\ disc'.ret.err = NoError =>
                   \E k \in 1..Len(disc.servers) : disc'.ret.s = disc.servers[k]
            /\ (disc'.ret.mode = RoundRobinSelect /\ Len(disc.servers) > 0) =>
                   /\ disc'.ret.err = NoError
                   /\ disc'.index \in 0..(Len(disc.servers) - 1)]_vars

\* over "a", "ab", "b" from index 0 (the drawn index was 3): a, ab, b, a,
\* the last asked by another caller than the first
C17_Witness ==
    /\ disc.servers = <<AddrA, AddrAB, AddrB>>
    /\ disc.from = 3
    /\ disc.got = <<AddrA, AddrAB, AddrB, AddrA>>
    /\ disc.ret.caller = 2
\* ------------------------------------------------------------------ C18
C18_RefreshStep == rd'.refresh.flip # rd.refresh.flip
C18_Letter(ch) == ch # Comma /\ ch # Space
RECURSIVE C18_Flatten(_)
C18_Flatten(list) == IF list = <<>> THEN <<>> ELSE Head(list) \o C18_Flatten(Tail(list))
\* the entries of the four headers: "", "a,ab,b", " a,, b ", " "
C18_Entries(h) ==
    IF h = <<1, Comma, 1, 2, Comma, 2>> THEN <<AddrA, AddrAB, AddrB>>
    ELSE IF h = <<Space, 1, Comma, Comma, Space, 2, Space>> THEN <<AddrA, AddrB>>
    ELSE <<>>

\* C18: a Refresh made while now < lastUpdate + timeout issues no request
\* and changes neither servers nor lastUpdate; any other Refresh issues the
\* GET and, when it succeeds, sets lastUpdate to now and servers to the
\* entries of the header, trimmed, the empty ones dropped, in order; Get and
\* GetAll return a result only after their own Refresh, so what they return
\* comes from a list that was younger than the timeout at that Refresh.
C18_RefreshWhenStale ==
    /\ [][(C18_RefreshStep /\ now < rd.lastUpdate + rd.timeout) =>
            /\ ~rd'.refresh.requested
            /\ rd'.refresh.err = NoError
            /\ disc'.servers = disc.servers
            /\ rd'.lastUpdate = rd.lastUpdate]_vars
    /\ [][(C18_RefreshStep /\ now >= rd.lastUpdate + rd.timeout) =>
            /\ rd'.refresh.requested
            /\ rd'.refresh.err = NoError =>
                  /\ rd'.lastUpdate = now
                  /\ disc'.servers = C18_Entries(rd'.refresh.header)
                  /\ C18_Flatten(disc'.servers) = SelectSeq(rd'.refresh.header, C18_Letter)
                  /\ \A i \in 1..Len(disc'.servers) :
                        LET e == disc'.servers[i]
                        IN  /\ e # <<>>
                            /\ e[1] # Space /\ e[Len(e)] # Space
                            /\ \A k \in 1..Len(e) : e[k] # Comma]_vars
    /\ [](rd.call.pc = "refreshed" => rd.call.at < rd.lastUpdate + rd.timeout)
    /\ [][(rd'.call.pc = "done" /\ rd'.call # rd.call) =>
            IF rd.call.pc = "refreshed"
            THEN /\ rd.call.at < rd.lastUpdate + rd.timeout
                 /\ rd.call.op = "Get" =>
                       /\ disc'.ret.err = NoError =>
                             \E k \in 1..Len(disc.servers) : disc'.ret.s = disc.servers[k]
                       /\ disc'.ret.err # NoError => Len(disc.servers) = 0
                 /\ rd.call.op = "GetAll" => rd'.call.list = disc.servers
            ELSE rd'.call.err # NoError]_vars

\* with timeout 2, a Get at time 4 refreshed from the header " a,, b " and
\* returned "b" out of the list a, b
C18_Witness ==
    /\ rd.timeout = 2
    /\ now = 4
    /\ rd.lastUpdate = 4
    /\ rd.refresh.requested
    /\ rd.refresh.header = <<Space, 1, Comma, Comma, Space, 2, Space>>
    /\ disc.servers = <<AddrA, AddrB>>
    /\ rd.call.pc = "done"
    /\ rd.call.op = "Get"
    /\ disc.ret.err = NoError
    /\ disc.ret.s = AddrB

\* ------------------------------------------------------------------ C19
\* C19: a Refresh whose GET fails was made on a stale list, returns that
\* error and leaves servers, lastUpdate and the round-robin state as they
\* were; a Get or GetAll that made it returns the error, no list, and does
\* not select an address.
C19_UnreachableRegistry ==
    [][(C18_RefreshStep /\ rd'.refresh.err # NoError) =>
          /\ rd'.refresh.requested
          /\ now >= rd.lastUpdate + rd.timeout
          /\ disc' = disc
          /\ rd'.lastUpdate = rd.lastUpdate
          /\ rd'.call # rd.call =>
                /\ rd'.call.pc = "done"
                /\ rd'.call.err = rd'.refresh.err
                /\ rd'.call.list = <<>>]_vars

\* the list a, ab, b fetched at time 1 with timeout 2 is still there at
\* time 4 after a GetAll that returned the GET error
C19_Witness ==
    /\ rd.timeout = 2
    /\ rd.lastUpdate = 1
    /\ now = 4
    /\ rd.refresh.err = ErrGet
    /\ rd.call.pc = "done"
    /\ rd.call.op = "GetAll"
    /\ rd.call.err = ErrGet
    /\ rd.call.list = <<>>
    /\ disc.servers = <<AddrA, AddrAB, AddrB>>
\* ------------------------------------------------------------------ C20
\* C20: Broadcaset returns only when every per-server task has finished;
\* it returns nil exactly when every call succeeded, and otherwise the
\* error that was recorded first under the lock, later ones being dropped;
\* while it runs the derived context is cancelled exactly when an error has
\* been recorded, so only then can a sibling call end with the context error.
C20_FirstErrorWins ==
    /\ [](bc.pc = "running" =>
            /\ bc.e = (IF bc.errs = <<>> THEN NoError ELSE bc.errs[1])
            /\ bc.cancelled = (bc.errs # <<>>)
            /\ \A i \in DOMAIN bc.task :
                  bc.task[i].err = ErrCtx => bc.errs # <<>>)
    /\ []((bc.pc = "returned" /\ bc.servers # <<>>) =>
            /\ \A i \in DOMAIN bc.task : bc.task[i].pc = "done"
            /\ (bc.ret = NoError) = (\A i \in DOMAIN bc.task : bc.task[i].err = NoError)
            /\ bc.ret = (IF bc.errs = <<>> THEN NoError ELSE bc.errs[1])
            /\ Len(bc.errs) = Cardinality({i \in DOMAIN bc.task : bc.task[i].err # NoError}))
    /\ [][bc.e # NoError => bc'.e = bc.e]_vars

\* three servers: the call to the second failed first, the third ended with
\* the context error, the first failed too; the second's error is returned
C20_Witness ==
    /\ bc.pc = "returned"
    /\ Len(bc.servers) = 3
    /\ bc.errs = <<callError(2), ErrCtx, callError(1)>>
    /\ bc.ret = callError(2)
\* ------------------------------------------------------------------ C21
\* C21: during one Broadcaset the caller's reply is set at most once, and
\* then with the clone of the successful task that took the lock first; the
\* clones are per task, a failed task's clone is never copied, and with a
\* nil reply nothing is ever set.
C21_ReplySetOnce ==
    /\ [](bc.pc # "idle" =>
            /\ bc.writes <= 1
            /\ bc.replyNil => (bc.writes = 0 /\ bc.reply = 0)
            /\ ~bc.replyNil => bc.writes = (IF bc.oks = <<>> THEN 0 ELSE 1)
            /\ bc.writes = 1 =>
                  /\ bc.task[bc.oks[1]].err = NoError
                  /\ bc.reply = replyValue(bc.oks[1])
            /\ bc.writes = 0 => bc.reply = 0)
    /\ [][bc'.reply # bc.reply =>
            \E i \in DOMAIN bc.task :
               /\ bc.task[i].pc = "record" /\ bc'.task[i].pc = "done"
               /\ bc.task[i].err = NoError
               /\ bc'.reply = bc.task[i].clone]_vars

\* three servers, reply not nil: the third succeeded first and its reply
\* was kept, the first succeeded later, the second failed
C21_Witness ==
    /\ bc.pc = "returned"
    /\ ~bc.replyNil
    /\ bc.oks = <<3, 1>>
    /\ bc.task[2].err = callError(2)
    /\ bc.reply = replyValue(3)
    /\ bc.writes = 1
\* ------------------------------------------------------------------ C22
\* C22: when dialTimeout returns an error after net.DialTimeout succeeded,
\* the handshake constructor having failed or the ConnectTimeout timer having
\* fired first, the client returned is nil and the connection is closed;
\* with ConnectTimeout = 0 it returns what the handshake task delivered and
\* never the timeout error; a dialTimeout that returns no error returns a
\* client on an open connection.
C22_DialErrorClosesConn ==
    /\ []((dial.pc = "returned" /\ dial.conn # "none" /\ dial.ret.err # NoError) =>
            (dial.ret.client = Nil /\ dial.conn = "closed"))
    /\ []((dial.pc = "returned" /\ dial.conn # "none"
              /\ dial.parsed.opt.ConnectTimeout = 0) =>
            /\ dial.hs.pc = "delivered"
            /\ dial.ret = [client |-> dial.hs.client, err |-> dial.hs.err])
    /\ []((dial.pc = "returned" /\ dial.ret.err = ErrConnectTimeout) =>
            (dial.parsed.opt.ConnectTimeout # 0 /\ dial.hs.pc # "delivered"))
    /\ []((dial.pc = "returned" /\ dial.ret.err = NoError) =>
            (dial.ret.client # Nil /\ dial.conn = "open"))

\* the timer fired, dialTimeout returned the timeout error and closed the
\* connection, and the handshake task then failed on it and stays blocked
\* on its channel
C22_Witness ==
    /\ dial.pc = "returned"
    /\ dial.ret = [client |-> Nil, err |-> ErrConnectTimeout]
    /\ dial.conn = "closed"
    /\ dial.hs.pc = "blocked"
    /\ dial.hs.err = ErrWrite
\* ------------------------------------------------------------------ C23
\* C23: for a CONNECT request Server.ServeHTTP writes the line
\* "HTTP/1.0 200 Connected to tinyrpc" and a blank line, and a DialHTTP
\* against ServeHTTP, with a registered codec and no failing write, Hijack
\* or timer, returns a client and no error.
C23_ConnectHandshakeSucceeds ==
    (/\ dial.pc = "returned"
     /\ dial.kind = "http"
     /\ dial.hs.pc = "delivered"
     /\ dial.clean
     /\ dial.parsed.opt.CodecType \in DOMAIN NewCodecFuncMap)
    => /\ ServeHTTP("CONNECT", TRUE) = http10 \o <<" ">> \o connected \o <<newline, newline>>
       /\ dial.ret.err = NoError
       /\ dial.ret.client # Nil
\* ------------------------------------------------------------------ C24
\* C24: parseOptions returns an error for every argument list of more than
\* one option; with none it returns DefaultOption; with exactly one it
\* returns that option with MagicNumber set to the constant, an empty
\* CodecType replaced by the default, and the timeouts as supplied.
C24_ParseOptions ==
    dial.pc # "idle" =>
        LET n == Len(dial.opts)
            p == dial.parsed
        IN  /\ n > 1 => p.err # NoError
            /\ n = 0 => p = [opt |-> DefaultOption, err |-> NoError]
            /\ (n = 1 /\ ~dial.opts[1].nil) =>
                  /\ p.err = NoError
                  /\ p.opt.MagicNumber = MagicNumber
                  /\ p.opt.CodecType = (IF dial.opts[1].CodecType = "" THEN GobType
                                         ELSE dial.opts[1].CodecType)
                  /\ p.opt.ConnectTimeout = dial.opts[1].ConnectTimeout
                  /\ p.opt.HandleTimeout = dial.opts[1].HandleTimeout
\* ------------------------------------------------------------------ C25
\* C25: in every reachable client state no call in pending has had its Done
\* signalled, and every entry of pending is stored under its call's Seq.
C25_NoDoneCallPending ==
    \A s \in DOMAIN pending :
       /\ call[pending[s]].Done = 0
       /\ call[pending[s]].Seq = s

\* ------------------------------------------------------------------ C26
\* C26: once terminateCalls has run, pending is empty.
C26_PendingEmptyAfterTerminate ==
    recv.pc = "exit" => pending = <<>>

\* ------------------------------------------------------------------ C27
\* C27: the step of terminateCalls(err) sets shutdown and gives every call
\* that is in pending at that moment Error = err and one more Done, skipping
\* none and touching no other call; terminateCalls runs only while no send
\* holds the sending lock, and once it has run every call whose send has
\* returned and whose caller still waits has had its Done signalled, by the
\* receive loop, by send or by terminateCalls.
C27_TerminateFailsAllPending ==
    /\ [][(recv.pc = "terminate" /\ recv'.pc = "exit") =>
            /\ shutdown'
            /\ sending = NoTask
            /\ \A c \in Calls :
                  IF \E s \in DOMAIN pending : pending[s] = c
                  THEN /\ call'[c].Error = recv.err
                       /\ call'[c].Done = call[c].Done + 1
                  ELSE call'[c] = call[c]]_vars
    /\ [](recv.pc = "exit" =>
            /\ shutdown
            /\ \A c \in Calls :
                  /\ task[c].pc \notin {"write", "writeFailed"}
                  /\ task[c].pc = "sent" => call[c].Done >= 1)

\* the read error ended the loop while both calls were pending: both were
\* failed with it, once each
C27_Witness ==
    /\ recv.pc = "exit"
    /\ recv.err = ErrRead
    /\ shutdown
    /\ \A c \in Calls :
          /\ task[c].pc = "sent"
          /\ call[c].Error = ErrRead
          /\ call[c].Done = 1
          /\ \E s \in DOMAIN pending : pending[s] = c
\* ------------------------------------------------------------------ C28
\* the tasks of the connection that are inside cc.Write
serverWriters ==
    {w \in {Loop} : srv.pc = "respond2"}
      \cup {Inner(r) : r \in {x \in Reqs : reqs[x].inner = "respond2"}}
      \cup {Sup(r) : r \in {x \in Reqs : reqs[x].sup = "timeout2"}}
clientWriters == {c \in Calls : task[c].pc \in {"write", "writeFailed"}}
wholeFrame(old, new) ==
    Len(new) > Len(old) =>
       /\ Len(new) = Len(old) + 2
       /\ SubSeq(new, 1, Len(old)) = old
       /\ new[Len(old) + 1].k = "H"
       /\ new[Len(old) + 2].k = "B"

\* C28: on a connection at most one writer is inside codec.Write at a time
\* and it holds the connection's sending mutex: on the server one of the
\* serve loop's error response, a handler's response and a timeout response,
\* with one header in the writer; on the client one send.  Every write that
\* reaches the stream adds exactly one (Header, Body) pair to it, and the
\* client's carries the Seq and ServiceMethod of the call being sent.
C28_OneWriterWholeFrames ==
    /\ [](/\ Cardinality(serverWriters) <= 1
          /\ \A w \in serverWriters : srvSending = w /\ Len(srvBuf) = 1
          /\ serverWriters = {} => srvSending = NoTask /\ srvBuf = <<>>
          /\ Cardinality(clientWriters) <= 1
          /\ \A c \in clientWriters : sending = Sender(c)
          /\ clientWriters = {} => sending = NoTask)
    /\ [][/\ wholeFrame(s2c, s2c')
           /\ wholeFrame(c2s, c2s')
           /\ Len(c2s') > Len(c2s) =>
                 \E c \in clientWriters :
                    /\ c2s'[Len(c2s) + 1].Seq = call[c].Seq
                    /\ c2s'[Len(c2s) + 1].ServiceMethod = call[c].ServiceMethod
                    /\ c2s'[Len(c2s) + 2].v = call[c].Args]_vars

\* one handler is inside Write while another response, a handler's or a
\* timeout's, waits for the mutex
C28_Witness ==
    \E r1, r2 \in Reqs :
       /\ r1 # r2
       /\ srvSending = Inner(r1)
       /\ reqs[r1].inner = "respond2"
       /\ reqs[r2].inner = "respond" \/ reqs[r2].sup = "timeout"
C30_LockOrder ==
    /\ [][\A t \in LkTasks :
            (lk'.sending = t /\ lk.sending # t) => lk.mu # t]_vars
    /\ [](/\ \A t \in LkTasks : lk.mu = t => wants(t) = ""
          /\ ~ \E t, u \in LkTasks :
                /\ t # u
                /\ wants(t) # "" /\ lk[wants(t)] = u
                /\ wants(u) # "" /\ lk[wants(u)] = t
          /\ \A t \in Senders : lk.mu = t => lk.sending = t
          /\ (lk.mu = Receiver /\ lk.pc[Receiver] = "locked2") => lk.sending = Receiver
          /\ \A t \in {Closer, Asker} : lk.sending # t
          /\ (lk.sending = Receiver) =>
                lk.pc[Receiver] \in {"locked1", "locked2", "unlocked2"})

\* terminateCalls holds sending and waits for mu, which Close holds, while
\* one caller waits in send for sending and the other has returned
C30_Witness ==
    /\ lk.pc[Receiver] = "locked1"
    /\ lk.sending = Receiver
    /\ lk.mu = Closer
    /\ lk.pc["send1"] = "idle"
    /\ lk.pc["send2"] = "done"
\* ------------------------------------------------------------------ C31
\* C31: under concurrent callers every client the XClient has dialled and
\* not closed is the one cached for its address, so there is at most one per
\* address; a dial that finds an available cached client returns it without
\* dialling and changes nothing; one that finds it unavailable closes it and
\* removes it before XDial, and XDial runs only while the address has no
\* entry; a failed dial returns no client and leaves the cache as it was.
C31_OneClientPerAddress ==
    /\ [](/\ \A id \in DOMAIN xc.obj :
                ~xc.obj[id].closing => xc.clients[xc.obj[id].rpcAddr] = id
          /\ \A a \in RpcAddrs :
                xc.clients[a] # Nil => xc.obj[xc.clients[a]].rpcAddr = a
          /\ \A t \in XCallers :
                xc.task[t].pc = "XDial" => /\ xc.clients[xc.task[t].rpcAddr] = Nil
                                           /\ xc.mu = t)
    /\ [][\A t \in XCallers :
            LET a == xc.task[t].rpcAddr
                id == xc.clients[a]
            IN  /\ (xc.task[t].pc = "lookup" /\ xc'.task[t].pc # "lookup") =>
                      IF id = Nil THEN xc'.task[t].pc = "XDial" /\ xc'.obj = xc.obj
                      ELSE IF available(xc.obj[id])
                      THEN /\ xc'.task[t].pc = "return"
                           /\ xc'.task[t].client = id
                           /\ xc'.obj = xc.obj
                           /\ xc'.clients = xc.clients
                      ELSE /\ xc'.task[t].pc = "XDial"
                           /\ xc'.obj[id].closing
                           /\ xc'.clients[a] = Nil
                           /\ Len(xc'.obj) = Len(xc.obj)
                /\ (xc.task[t].pc = "return" /\ xc'.task[t].pc = "returned") =>
                      /\ xc'.task[t].client = xc.clients[a]
                      /\ xc'.task[t].err = NoError
                      /\ xc'.obj = xc.obj /\ xc'.clients = xc.clients
                /\ (xc.task[t].pc = "XDial" /\ xc'.task[t].pc = "returned") =>
                      IF xc'.task[t].err # NoError
                      THEN /\ xc'.task[t].client = Nil
                           /\ xc'.clients = xc.clients
                           /\ xc'.obj = xc.obj
                      ELSE /\ Len(xc'.obj) = Len(xc.obj) + 1
                           /\ xc'.task[t].client = Len(xc'.obj)
                           /\ xc'.clients[a] = Len(xc'.obj)]_vars

\* the first client of an address went down and was closed and replaced by
\* one caller's dial, and the other caller's dial got the replacement from
\* the cache
C31_Witness ==
    /\ Len(xc.obj) = 2
    /\ xc.obj[1].rpcAddr = xc.obj[2].rpcAddr
    /\ xc.obj[1].closing /\ xc.obj[1].shutdown
    /\ available(xc.obj[2])
    /\ xc.clients[xc.obj[2].rpcAddr] = 2
    /\ \A t \in XCallers : xc.task[t].pc = "returned" /\ xc.task[t].client = 2
\* ------------------------------------------------------------------ C32
\* C32: closing and shutdown never go from true to false, in any step of
\* Go, send, Call, the receive loop, terminateCalls or Close, so once
\* IsAvailable is false it is false in every later state.
C32_FlagsMonotonic ==
    [][/\ closing => closing'
       /\ shutdown => shutdown'
       /\ ~IsAvailable => ~IsAvailable']_vars

\* both flags are set, by Close and by terminateCalls, and a later Close has
\* returned ErrShutdown
C32_Witness ==
    /\ closing
    /\ shutdown
    /\ recv.pc = "exit"
    /\ closeRet = ErrShutdown
    /\ ~IsAvailable
\* ------------------------------------------------------------------ C33
isPending(c) == call[c].Seq \in DOMAIN pending /\ pending[call[c].Seq] = c

\* C33 as stated: a call pending on a closed client eventually has its Done
\* signalled with a non-nil Error.
C33_PendingFailedAfterClose ==
    \A c \in Calls :
        (closing /\ isPending(c)) ~> (call[c].Done >= 1 /\ call[c].Error # NoError)

\* C33 amended: a call pending on a closed client eventually has its Done
\* signalled, with a non-nil Error or with the reply of a response that was
\* read all the same, or its Call returns on its cancelled context; the
\* receive loop eventually ends and terminateCalls runs; no caller waits
\* for ever.
C33_PendingSignalledAfterClose ==
    /\ \A c \in Calls :
          (closing /\ isPending(c)) ~>
              \/ call[c].Done >= 1 /\ (call[c].Error # NoError \/ call[c].Reply # Nil)
              \/ task[c].pc = "ret" /\ task[c].ret = ErrCtx
    /\ \A c \in Calls :
          (closing /\ isPending(c)) ~> (task[c].pc = "sent" => call[c].Done >= 1)
    /\ closing ~> (recv.pc = "exit" /\ shutdown)

\* Close was called on a healthy connection with both calls pending; the
\* read failed and terminateCalls failed both with the read error
C33_Witness ==
    /\ closing
    /\ conn.net = "up"
    /\ conn.server = "open"
    /\ recv.pc = "exit"
    /\ \A c \in Calls :
          /\ isPending(c)
          /\ call[c].Done = 1
          /\ call[c].Error = ErrRead
          /\ task[c].pc = "sent"
\* ------------------------------------------------------------------ C34
\* C34: once Call has returned for a call, no later step changes that
\* call: not its Reply, not its Error, not its Done.
C34_NoTouchAfterReturn ==
    [][\A c \in Calls : task[c].pc = "ret" => call'[c] = call[c]]_vars
\* ------------------------------------------------------------------ C35
\* C35: a handler task whose service method has returned eventually exits,
\* for HandleTimeout == 0 and for HandleTimeout > 0.
C35_HandlerTaskExits ==
    \A r \in 1..MaxReqs :
        (Len(reqs) >= r /\ reqs[r].inner = "called") ~>
            (Len(reqs) >= r /\ reqs[r].inner = "exit")
====
